---- MODULE Spec2Model ----
(***************************************************************************)
(* Peer-to-peer delivery system: order lifecycle (OrderService), driver    *)
(* matching and the pending queue (AssignmentService), the in-memory       *)
(* repositories and the expiration sweep (cleanup_expired_orders).         *)
(*                                                                         *)
(* Two views of the same code are modelled:                                *)
(*   - whole calls executed one at a time (Spec): every operation is a     *)
(*     pure operator on the "world" (the repositories and the queue);      *)
(*   - calls of several threads interleaved at the granularity of the      *)
(*     reads and writes of the shared objects (SpecConc, SpecCreate,       *)
(*     SpecConcFair): one action per read, write or repository call.       *)
(* The repositories hand out references: an Order or Driver fetched with   *)
(* get() is the stored object itself, so a field write is visible to every *)
(* thread at once and save() of an already stored object changes nothing.  *)
(***************************************************************************)
EXTENDS Integers, Sequences, FiniteSets, TLC

\* ---------------------------------------------------------------- bounds
MaxOrders == 3
MaxDrivers == 2
MaxTime == 1
MaxThreads == 3
ConcThreads == 2
MaxCalls == 4
\* thread.join(timeout=2.0), in seconds
JoinTimeout == 2
\* check_interval_seconds: below the join timeout, main's 2 and the default 5
Intervals == {1, 2, 5}
DefaultInterval == 5

OrderIds == 1..MaxOrders
DriverIds == 1..MaxDrivers
Threads == 1..MaxThreads
Timeouts == 0..MaxTime

\* Optional[str] driver_id = None, Optional[str] payment_id = None
None == 0
\* the customers onboarded with CustomerService; UnknownCustomer is no key of
\* the customer repository
customer_store == {1}
\* the customer ids a caller may pass: a known one and an unknown one
CustomerIds == {1, 2}

OrderStatus == {"PENDING", "ASSIGNED", "PICKED_UP", "DELIVERED", "CANCELLED"}
DriverStatus == {"AVAILABLE", "BUSY"}

VARIABLES
  order_store,     \* InMemoryRepository[Order]._store: order id -> Order
  order_keys,      \* its keys in insertion order (what all() iterates)
  driver_store,    \* InMemoryRepository[Driver]._store: driver id -> Driver
  driver_keys,     \* its keys in insertion order
  pending_orders,  \* AssignmentService.pending_orders
  payment_store,   \* InMemoryRepository[Payment]: the order id of each payment captured
  now,             \* time.time()
  lastOp,          \* the last call that returned, with its outcome (observation)
  pc,              \* per thread: the place in the code it is at
  loc,             \* per thread: its arguments and local variables
  lock,            \* AssignmentService.lock (an RLock): its owner, or None
  calls,           \* the calls started so far (bounded by MaxCalls)
  sched,           \* OrderExpirationScheduler: its stop event, its thread and stop()
  locks            \* the three locks: owner and depth of each, and what each thread
                   \* has still to acquire and release in its call

vars == <<order_store, order_keys, driver_store, driver_keys, pending_orders,
          payment_store, now, lastOp, pc, loc, lock, calls, sched, locks>>

storeVars == <<order_store, order_keys, driver_store, driver_keys, pending_orders,
               payment_store>>
threadVars == <<pc, loc, lock, calls, locks>>

Range(s) == {s[i] : i \in 1..Len(s)}

\* ------------------------------------------------------------- entities
\* models/order.py: Order(id, customer_id, item) with its defaults
Order(created_at) ==
  [status |-> "PENDING", driver_id |-> None, created_at |-> created_at,
   payment_id |-> None, is_paid |-> FALSE]

\* models/driver.py: Driver(id, name) with its defaults
Driver == [status |-> "AVAILABLE", order_count |-> 0, rating |-> 0]

\* Order.can_be_cancelled
can_be_cancelled_until_delivered(order) ==
  order.status \in {"PENDING", "ASSIGNED", "PICKED_UP"}
can_be_cancelled(order) == order.status \in {"PENDING", "ASSIGNED"}

\* the repositories and the queue, as one value the operations transform
World ==
  [order_store |-> order_store, order_keys |-> order_keys,
   driver_store |-> driver_store, driver_keys |-> driver_keys,
   pending_orders |-> pending_orders, payment_store |-> payment_store]

\* InMemoryRepository.save on the order repository: a dict keeps the place of
\* a key it already holds
save_order(w, id, order) ==
  [w EXCEPT !.order_store = [k \in DOMAIN w.order_store \cup {id} |->
                               IF k = id THEN order ELSE w.order_store[k]],
            !.order_keys = IF id \in DOMAIN w.order_store THEN @ ELSE Append(@, id)]

\* InMemoryRepository.save on the driver repository
save_driver(w, id, driver) ==
  [w EXCEPT !.driver_store = [k \in DOMAIN w.driver_store \cup {id} |->
                                IF k = id THEN driver ELSE w.driver_store[k]],
            !.driver_keys = IF id \in DOMAIN w.driver_store THEN @ ELSE Append(@, id)]

\* ------------------------------------------------------ matching strategy
\* FirstAvailableMatchingStrategy.find_driver over get_all_drivers(): the
\* first driver, in insertion order, whose status is AVAILABLE
find_driver_last(keys, store) ==
  LET avail == {i \in 1..Len(keys) : store[keys[i]].status = "AVAILABLE"} IN
    IF avail = {} THEN None
    ELSE keys[CHOOSE i \in avail : \A j \in avail : j <= i]
find_driver_any(keys, store) == IF keys = <<>> THEN None ELSE Head(keys)
RECURSIVE find_driver(_, _)
find_driver(keys, store) ==
  IF keys = <<>> THEN None
  ELSE IF store[Head(keys)].status = "AVAILABLE" THEN Head(keys)
  ELSE find_driver(Tail(keys), store)

\* RatingBasedMatchingStrategy.find_driver, line 26: the AVAILABLE drivers in
\* list order
available_drivers(keys, store) ==
  SelectSeq(keys, LAMBDA k : store[k].status = "AVAILABLE")

\* max(available_drivers, key=lambda d: d.rating): the largest so far is
\* replaced by a later driver only when that one's rating is larger
RECURSIVE max_by_rating_last(_, _, _)
max_by_rating_last(best, rest, store) ==
  IF rest = <<>> THEN best
  ELSE max_by_rating_last(IF store[Head(rest)].rating >= store[best].rating
                          THEN Head(rest) ELSE best,
                          Tail(rest), store)
RECURSIVE max_by_rating(_, _, _)
max_by_rating(best, rest, store) ==
  IF rest = <<>> THEN best
  ELSE max_by_rating(IF store[Head(rest)].rating > store[best].rating
                     THEN Head(rest) ELSE best,
                     Tail(rest), store)

\* RatingBasedMatchingStrategy.find_driver
RatingBased_find_driver(keys, store) ==
  LET available == available_drivers(keys, store) IN
    IF available = <<>> THEN None
    ELSE max_by_rating(Head(available), Tail(available), store)

\* ----------------------------------------------------- AssignmentService
\* AssignmentService.attempt_assignment, run without interference
attempt_assignment_queues_assigned(w, order_id) ==
  IF order_id \notin DOMAIN w.order_store
     \/ w.order_store[order_id].status # "PENDING"
  THEN [w |-> w, ret |-> FALSE]
  ELSE LET driver == find_driver(w.driver_keys, w.driver_store)
           queued == [w EXCEPT !.pending_orders =
                                 IF order_id \in Range(@) THEN @ ELSE Append(@, order_id)]
       IN IF driver # None
          THEN [w |-> [queued EXCEPT !.driver_store[driver].status = "BUSY",
                                     !.order_store[order_id].driver_id = driver,
                                     !.order_store[order_id].status = "ASSIGNED"],
                ret |-> TRUE]
          ELSE [w |-> queued, ret |-> FALSE]
attempt_assignment_append(w, order_id) ==
  IF order_id \notin DOMAIN w.order_store
     \/ w.order_store[order_id].status # "PENDING"
  THEN [w |-> w, ret |-> FALSE]
  ELSE LET driver == find_driver(w.driver_keys, w.driver_store) IN
       IF driver # None
       THEN [w |-> [w EXCEPT !.driver_store[driver].status = "BUSY",
                             !.order_store[order_id].driver_id = driver,
                             !.order_store[order_id].status = "ASSIGNED"],
             ret |-> TRUE]
       ELSE [w |-> [w EXCEPT !.pending_orders = Append(@, order_id)], ret |-> FALSE]
attempt_assignment_unchecked(w, order_id) ==
  IF order_id \notin DOMAIN w.order_store
  THEN [w |-> w, ret |-> FALSE]
  ELSE LET driver == find_driver(w.driver_keys, w.driver_store) IN
       IF driver # None
       THEN [w |-> [w EXCEPT !.driver_store[driver].status = "BUSY",
                             !.order_store[order_id].driver_id = driver,
                             !.order_store[order_id].status = "ASSIGNED"],
             ret |-> TRUE]
       ELSE [w |-> [w EXCEPT !.pending_orders =
                               IF order_id \in Range(@) THEN @ ELSE Append(@, order_id)],
             ret |-> FALSE]
attempt_assignment(w, order_id) ==
  IF order_id \notin DOMAIN w.order_store
     \/ w.order_store[order_id].status # "PENDING"
  THEN [w |-> w, ret |-> FALSE]
  ELSE LET driver == find_driver(w.driver_keys, w.driver_store) IN
       IF driver # None
       THEN [w |-> [w EXCEPT !.driver_store[driver].status = "BUSY",
                             !.order_store[order_id].driver_id = driver,
                             !.order_store[order_id].status = "ASSIGNED"],
             ret |-> TRUE]
       ELSE [w |-> [w EXCEPT !.pending_orders =
                               IF order_id \in Range(@) THEN @ ELSE Append(@, order_id)],
             ret |-> FALSE]

\* AssignmentService.on_driver_available, run without interference.  A popped
\* order that is PENDING while no driver is AVAILABLE is appended again by
\* attempt_assignment; nothing in the loop changes that, so the while loop
\* never ends: err = "diverged" stands for the call that does not return.
\* on_driver_available, line 66: order_id = self.pending_orders.pop(0)
pop_last(queue) == [order_id |-> queue[Len(queue)], rest |-> SubSeq(queue, 1, Len(queue) - 1)]
pop_first(queue) == [order_id |-> Head(queue), rest |-> Tail(queue)]

on_driver_available_one_try(w) ==
  IF w.pending_orders = <<>> THEN [w |-> w, err |-> "ok"]
  ELSE [w |-> attempt_assignment([w EXCEPT !.pending_orders = pop_first(@).rest],
                                 pop_first(w.pending_orders).order_id).w,
        err |-> "ok"]

RECURSIVE on_driver_available_no_return(_)
on_driver_available_no_return(w) ==
  IF w.pending_orders = <<>> THEN [w |-> w, err |-> "ok"]
  ELSE LET order_id == pop_first(w.pending_orders).order_id
           popped == [w EXCEPT !.pending_orders = pop_first(@).rest]
           r == attempt_assignment(popped, order_id)
       IN IF r.w.pending_orders = popped.pending_orders
          THEN on_driver_available_no_return(r.w)
          ELSE [w |-> r.w, err |-> "diverged"]

RECURSIVE on_driver_available(_)
on_driver_available(w) ==
  IF w.pending_orders = <<>> THEN [w |-> w, err |-> "ok"]
  ELSE LET order_id == pop_first(w.pending_orders).order_id
           popped == [w EXCEPT !.pending_orders = pop_first(@).rest]
           r == attempt_assignment(popped, order_id)
       IN IF r.ret THEN [w |-> r.w, err |-> "ok"]
          ELSE IF r.w.pending_orders = popped.pending_orders
               THEN on_driver_available(r.w)
               ELSE [w |-> r.w, err |-> "diverged"]

\* DriverService.update_status
update_status_unsaved(w, driver_id, status) ==
  [w |-> w, err |-> IF driver_id \in DOMAIN w.driver_store THEN "ok" ELSE "DriverNotFound"]
update_status(w, driver_id, status) ==
  IF driver_id \notin DOMAIN w.driver_store
  THEN [w |-> w, err |-> "DriverNotFound"]
  ELSE [w |-> [w EXCEPT !.driver_store[driver_id].status = status], err |-> "ok"]

\* ---------------------------------------------------------- OrderService
\* nfail: which of the call's notifications raises (0: none; the shipped
\* NotificationService only logs).  pfail: whether process_payment raises.

\* OrderService.create_order
create_order_customer_first(w, order_id, customer_id, created_at, nfail) ==
  IF customer_id \notin customer_store THEN [w |-> w, err |-> "CustomerNotFound"]
  ELSE IF order_id \in DOMAIN w.order_store THEN [w |-> w, err |-> "DuplicateOrder"]
  ELSE LET saved == save_order(w, order_id, Order(created_at)) IN
       IF nfail = 1 THEN [w |-> saved, err |-> "NotificationError"]
       ELSE [w |-> attempt_assignment(saved, order_id).w, err |-> "ok"]
create_order(w, order_id, customer_id, created_at, nfail) ==
  IF order_id \in DOMAIN w.order_store THEN [w |-> w, err |-> "DuplicateOrder"]
  ELSE IF customer_id \notin customer_store THEN [w |-> w, err |-> "CustomerNotFound"]
  ELSE LET saved == save_order(w, order_id, Order(created_at)) IN
       IF nfail = 1 THEN [w |-> saved, err |-> "NotificationError"]
       ELSE [w |-> attempt_assignment(saved, order_id).w, err |-> "ok"]

\* OrderService.pickup_order
pickup_order_any_driver(w, driver_id, order_id, nfail) ==
  IF order_id \notin DOMAIN w.order_store THEN [w |-> w, err |-> "OrderNotFound"]
  ELSE IF w.order_store[order_id].status # "ASSIGNED"
  THEN [w |-> w, err |-> "InvalidOrderState"]
  ELSE [w |-> [w EXCEPT !.order_store[order_id].status = "PICKED_UP"],
        err |-> IF nfail \in {1, 2} THEN "NotificationError" ELSE "ok"]
pickup_order(w, driver_id, order_id, nfail) ==
  IF order_id \notin DOMAIN w.order_store THEN [w |-> w, err |-> "OrderNotFound"]
  ELSE IF w.order_store[order_id].status # "ASSIGNED"
  THEN [w |-> w, err |-> "InvalidOrderState"]
  ELSE IF w.order_store[order_id].driver_id # driver_id
  THEN [w |-> w, err |-> "DriverNotAssigned"]
  ELSE [w |-> [w EXCEPT !.order_store[order_id].status = "PICKED_UP"],
        err |-> IF nfail \in {1, 2} THEN "NotificationError" ELSE "ok"]

\* OrderService.complete_order
complete_order_uncounted(w, driver_id, order_id, nfail) ==
  IF order_id \notin DOMAIN w.order_store THEN [w |-> w, err |-> "OrderNotFound"]
  ELSE IF w.order_store[order_id].status # "PICKED_UP"
  THEN [w |-> w, err |-> "InvalidOrderState"]
  ELSE IF w.order_store[order_id].driver_id # driver_id
  THEN [w |-> w, err |-> "DriverNotAssigned"]
  ELSE LET delivered == [w EXCEPT !.order_store[order_id].status = "DELIVERED"]
           d == delivered.order_store[order_id].driver_id
       IN IF d = None THEN [w |-> delivered, err |-> "ok"]
          ELSE LET freed == update_status(delivered, d, "AVAILABLE") IN
               IF freed.err # "ok" THEN freed
               ELSE IF nfail = 1 THEN [w |-> freed.w, err |-> "NotificationError"]
               ELSE on_driver_available(freed.w)
complete_order(w, driver_id, order_id, nfail) ==
  IF order_id \notin DOMAIN w.order_store THEN [w |-> w, err |-> "OrderNotFound"]
  ELSE IF w.order_store[order_id].status # "PICKED_UP"
  THEN [w |-> w, err |-> "InvalidOrderState"]
  ELSE IF w.order_store[order_id].driver_id # driver_id
  THEN [w |-> w, err |-> "DriverNotAssigned"]
  ELSE LET delivered == [w EXCEPT !.order_store[order_id].status = "DELIVERED"]
           d == delivered.order_store[order_id].driver_id
       IN IF d = None THEN [w |-> delivered, err |-> "ok"]
          ELSE LET freed == update_status(delivered, d, "AVAILABLE") IN
               IF freed.err # "ok" THEN freed
               ELSE LET counted == [freed.w EXCEPT !.driver_store[d].order_count = @ + 1] IN
                    IF nfail = 1 THEN [w |-> counted, err |-> "NotificationError"]
                    ELSE on_driver_available(counted)

\* cancel_order, line 222..223: order.status = CANCELLED, order.driver_id = None
cancelled_order_keeps_driver(order) == [order EXCEPT !.status = "CANCELLED"]
cancelled_order(order) == [order EXCEPT !.status = "CANCELLED", !.driver_id = None]

\* OrderService.cancel_order
cancel_order_no_drain(w, order_id, nfail) ==
  IF order_id \notin DOMAIN w.order_store THEN [w |-> w, err |-> "OrderNotFound"]
  ELSE IF ~can_be_cancelled(w.order_store[order_id])
  THEN [w |-> w, err |-> "OrderNotCancellable"]
  ELSE LET prev_driver_id == w.order_store[order_id].driver_id
           cancelled == [w EXCEPT !.order_store[order_id] = cancelled_order(@)]
       IN IF nfail = 1 THEN [w |-> cancelled, err |-> "NotificationError"]
          ELSE IF prev_driver_id = None THEN [w |-> cancelled, err |-> "ok"]
          ELSE update_status(cancelled, prev_driver_id, "AVAILABLE")
cancel_order(w, order_id, nfail) ==
  IF order_id \notin DOMAIN w.order_store THEN [w |-> w, err |-> "OrderNotFound"]
  ELSE IF ~can_be_cancelled(w.order_store[order_id])
  THEN [w |-> w, err |-> "OrderNotCancellable"]
  ELSE LET prev_driver_id == w.order_store[order_id].driver_id
           cancelled == [w EXCEPT !.order_store[order_id] = cancelled_order(@)]
       IN IF nfail = 1 THEN [w |-> cancelled, err |-> "NotificationError"]
          ELSE IF prev_driver_id = None THEN [w |-> cancelled, err |-> "ok"]
          ELSE LET freed == update_status(cancelled, prev_driver_id, "AVAILABLE") IN
               IF freed.err # "ok" THEN freed
               ELSE IF nfail = 2 THEN [w |-> freed.w, err |-> "NotificationError"]
               ELSE on_driver_available(freed.w)

\* PaymentService.process_payment: a Payment with a fresh id (uuid4), saved
process_payment(w, order_id) ==
  [w |-> [w EXCEPT !.payment_store = Append(@, order_id)],
   id |-> Len(w.payment_store) + 1]

\* process_order_payment, line 250: if order.is_paid
already_paid_unchecked(order) == FALSE
already_paid(order) == order.is_paid

\* OrderService.process_order_payment
process_order_payment_marks_first(w, order_id, nfail, pfail) ==
  IF order_id \notin DOMAIN w.order_store THEN [w |-> w, err |-> "OrderNotFound"]
  ELSE IF already_paid(w.order_store[order_id])
  THEN [w |-> w, err |-> IF nfail = 1 THEN "NotificationError" ELSE "ok"]
  ELSE LET paid == [w EXCEPT !.order_store[order_id].is_paid = TRUE] IN
       IF pfail THEN [w |-> paid, err |-> "PaymentError"]
       ELSE LET payment == process_payment(paid, order_id) IN
            [w |-> [payment.w EXCEPT !.order_store[order_id].payment_id = payment.id],
             err |-> IF nfail = 1 THEN "NotificationError" ELSE "ok"]
process_order_payment(w, order_id, nfail, pfail) ==
  IF order_id \notin DOMAIN w.order_store THEN [w |-> w, err |-> "OrderNotFound"]
  ELSE IF already_paid(w.order_store[order_id])
  THEN [w |-> w, err |-> IF nfail = 1 THEN "NotificationError" ELSE "ok"]
  ELSE IF pfail THEN [w |-> w, err |-> "PaymentError"]
  ELSE LET payment == process_payment(w, order_id) IN
       [w |-> [payment.w EXCEPT !.order_store[order_id].payment_id = payment.id,
                                !.order_store[order_id].is_paid = TRUE],
        err |-> IF nfail = 1 THEN "NotificationError" ELSE "ok"]

\* cleanup_expired_orders, line 279: the test of one order's age
is_expired_at_timeout(t, created_at, timeout_seconds) == t - created_at >= timeout_seconds
is_expired(t, created_at, timeout_seconds) == t - created_at > timeout_seconds

\* cleanup_expired_orders, line 278: the statuses the sweep looks at
sweepable_pending_only(order) == order.status = "PENDING"
sweepable(order) == order.status \in {"PENDING", "ASSIGNED"}

\* cleanup_expired_orders: the loop over all_orders, a list of the stored
\* objects (their fields are read as they are when the loop reaches them)
RECURSIVE sweep_loop(_, _, _, _)
sweep_loop(w, all_orders, t, timeout_seconds) ==
  IF all_orders = <<>> THEN [w |-> w, err |-> "ok"]
  ELSE LET id == Head(all_orders)
           order == w.order_store[id]
       IN IF sweepable(order)
             /\ is_expired(t, order.created_at, timeout_seconds)
          THEN LET r == cancel_order(w, id, 0) IN
               IF r.err \in {"ok", "OrderNotCancellable"}
               THEN sweep_loop(r.w, Tail(all_orders), t, timeout_seconds)
               ELSE r
          ELSE sweep_loop(w, Tail(all_orders), t, timeout_seconds)

\* OrderService.cleanup_expired_orders
cleanup_expired_orders(w, t, timeout_seconds) ==
  sweep_loop(w, w.order_keys, t, timeout_seconds)

\* DriverService.onboard_driver
onboard_driver(w, id) ==
  IF id \in DOMAIN w.driver_store THEN [w |-> w, err |-> "DuplicateDriver"]
  ELSE [w |-> save_driver(w, id, Driver), err |-> "ok"]

\* ===================================================== calls one at a time
\* op: the call; order_id: its order; arg: its timeout (a sweep) or whether it
\* found the order paid (a payment); at: time.time() at the call; err: its outcome
NoOp == [op |-> "none", order_id |-> None, arg |-> 0, at |-> 0, err |-> "ok"]

\* a thread's arguments and locals while it is in no call
Loc0 ==
  [op |-> "none", order_id |-> None, driver_id |-> None,
   cur |-> None, prev |-> None, drv |-> None, scan |-> 0, cnt |-> 0,
   timeout |-> 0, at |-> 0, all |-> 0, idx |-> 0, swallowed |-> 0, held |-> <<>>,
   payment |-> None]

\* every component constructed, the customers and drivers 1..k onboarded
\* OrderExpirationScheduler.__init__: the event clear, the thread not started
\* (run = "new"), stop() not called; sleep_left and join_left are the seconds
\* left of time.sleep and of thread.join
Scheduler(check_interval_seconds) ==
  [interval |-> check_interval_seconds, stop_event |-> FALSE, run |-> "new",
   sleep_left |-> 0, stop |-> "idle", join_left |-> 0]

\* AssignmentService.lock and the _lock of the driver and the order
\* repository, all three RLocks: free, and no thread inside a call
LockNames == {"engine", "drivers", "orders"}
NoLocks ==
  [owner |-> [l \in LockNames |-> None], depth |-> [l \in LockNames |-> 0],
   todo |-> [t \in Threads |-> <<>>]]

InitStores(k) ==
  /\ order_store = <<>>
  /\ order_keys = <<>>
  /\ driver_store = [d \in 1..k |-> Driver]
  /\ driver_keys = [i \in 1..k |-> i]
  /\ pending_orders = <<>>
  /\ payment_store = <<>>
  /\ now = 0
  /\ lastOp = NoOp
  /\ pc = [t \in Threads |-> "idle"]
  /\ loc = [t \in Threads |-> Loc0]
  /\ lock = None
  /\ calls = 0
  /\ locks = NoLocks

InitDrivers(k) == InitStores(k) /\ sched = Scheduler(DefaultInterval)

Init == InitDrivers(0)

InitConc == \E k \in 0..MaxDrivers : InitDrivers(k)

\* a call that returned (or raised err) and left the world w
\* the stores after the step are those the call r leaves
EffectsOf(r) ==
  /\ order_store' = r.w.order_store
  /\ order_keys' = r.w.order_keys
  /\ driver_store' = r.w.driver_store
  /\ driver_keys' = r.w.driver_keys
  /\ pending_orders' = r.w.pending_orders
  /\ payment_store' = r.w.payment_store

Returned(r, op, order_id, arg) ==
  /\ r.err # "diverged"
  /\ order_store' = r.w.order_store
  /\ order_keys' = r.w.order_keys
  /\ driver_store' = r.w.driver_store
  /\ driver_keys' = r.w.driver_keys
  /\ pending_orders' = r.w.pending_orders
  /\ payment_store' = r.w.payment_store
  /\ lastOp' = [op |-> op, order_id |-> order_id, arg |-> arg, at |-> now, err |-> r.err]
  /\ UNCHANGED <<now, pc, loc, lock, calls, sched, locks>>

\* Ids are opaque keys, so a caller's new id is taken to be the next unused
\* one: every other choice is the same run with the ids renamed.
UsableOrderIds == {o \in OrderIds : o <= Len(order_keys) + 1}
UsableDriverIds == {d \in DriverIds : d <= Len(driver_keys) + 1}

OnboardDriver ==
  \E d \in UsableDriverIds : Returned(onboard_driver(World, d), "onboard_driver", None, 0)

CreateOrder ==
  \E o \in UsableOrderIds, c \in CustomerIds :
    Returned(create_order(World, o, c, now, 0), "create_order", o, 0)

PickupOrder ==
  \E d \in DriverIds, o \in OrderIds :
    Returned(pickup_order(World, d, o, 0), "pickup_order", o, 0)

CompleteOrder ==
  \E d \in DriverIds, o \in OrderIds :
    Returned(complete_order(World, d, o, 0), "complete_order", o, 0)

CancelOrder ==
  \E o \in OrderIds : Returned(cancel_order(World, o, 0), "cancel_order", o, 0)

ProcessOrderPayment ==
  \E o \in OrderIds :
    Returned(process_order_payment(World, o, 0, FALSE), "process_order_payment", o,
             IF o \in DOMAIN order_store /\ order_store[o].is_paid THEN 1 ELSE 0)

CleanupExpiredOrders ==
  \E T \in Timeouts :
    Returned(cleanup_expired_orders(World, now, T), "cleanup_expired_orders", None, T)

\* time.time() advances
Tick ==
  /\ now < MaxTime
  /\ now' = now + 1
  /\ UNCHANGED <<storeVars, lastOp, threadVars, sched>>

\* the lifecycle controller's calls other than payment, one at a time
Next ==
  \/ OnboardDriver
  \/ CreateOrder
  \/ PickupOrder
  \/ CompleteOrder
  \/ CancelOrder
  \/ CleanupExpiredOrders
  \/ Tick

Spec == Init /\ [][Next]_vars

\* the same with process_order_payment
NextPay ==
  \/ OnboardDriver
  \/ CreateOrder
  \/ PickupOrder
  \/ CompleteOrder
  \/ CancelOrder
  \/ ProcessOrderPayment
  \/ CleanupExpiredOrders
  \/ Tick

SpecPay == Init /\ [][NextPay]_vars

\* AssignmentService.attempt_assignment called directly; arg: what it returned
AttemptAssignment ==
  \E o \in OrderIds :
    LET r == attempt_assignment(World, o) IN
      Returned([w |-> r.w, err |-> "ok"], "attempt_assignment", o, IF r.ret THEN 1 ELSE 0)

\* AssignmentService.on_driver_available called directly (its driver_id
\* argument is not used by the code)
OnDriverAvailable ==
  Returned(on_driver_available(World), "on_driver_available", None, 0)

\* the controller's calls and the assignment engine's, one at a time
NextEngine ==
  \/ OnboardDriver
  \/ CreateOrder
  \/ PickupOrder
  \/ CompleteOrder
  \/ CancelOrder
  \/ AttemptAssignment
  \/ OnDriverAvailable

SpecEngine == Init /\ [][NextEngine]_vars

\* ---- the matching strategies called on a list of drivers
\* Driver.rating: 0.0 for a driver never rated, else the mean of scores 1..5
Ratings == {0, 3, 5}
MaxList == 3

\* drivers of any status and rating, in a list of up to MaxList
InitStrategy ==
  /\ \E n \in 0..MaxList :
       /\ driver_store \in [1..n -> [status : {"AVAILABLE", "BUSY"}, order_count : {0},
                                     rating : Ratings]]
       /\ driver_keys = [i \in 1..n |-> i]
  /\ order_store = <<>> /\ order_keys = <<>> /\ pending_orders = <<>>
  /\ payment_store = <<>> /\ now = 0 /\ lastOp = NoOp
  /\ pc = [t \in Threads |-> "idle"] /\ loc = [t \in Threads |-> Loc0]
  /\ lock = None /\ calls = 0 /\ locks = NoLocks
  /\ sched = Scheduler(DefaultInterval)

\* FirstAvailableMatchingStrategy.find_driver(drivers); arg: the driver returned
FirstAvailableFindDriver ==
  Returned([w |-> World, err |-> "ok"], "FirstAvailable.find_driver", None,
           find_driver(driver_keys, driver_store))

\* RatingBasedMatchingStrategy.find_driver(drivers); arg: the driver returned
RatingBasedFindDriver ==
  Returned([w |-> World, err |-> "ok"], "RatingBased.find_driver", None,
           RatingBased_find_driver(driver_keys, driver_store))

NextStrategy == FirstAvailableFindDriver \/ RatingBasedFindDriver

SpecStrategy == InitStrategy /\ [][NextStrategy]_vars

\* ---- calls that raise before or inside the controller
\* create_order takes (order_id, customer_id, item) and nothing else: a call
\* that passes a quantity or a weight cannot bind its arguments and raises
\* TypeError before the body runs, whatever the values are.
Quantities == {1, 100}
Weights == {0, 100}

create_order_sized(w, order_id, customer_id, created_at, quantity, weight) ==
  [w |-> w, err |-> "TypeError"]

CreateOrderSized ==
  \E o \in UsableOrderIds, c \in CustomerIds, q \in Quantities, wt \in Weights :
    Returned(create_order_sized(World, o, c, now, q, wt), "create_order", o, 0)

\* The notification collaborator raises in its nfail-th call of the
\* operation; no caller of self.notification catches anything.
CreateOrderNotifyFails ==
  \E o \in UsableOrderIds, c \in CustomerIds :
    LET r == create_order(World, o, c, now, 1) IN
      r.err = "NotificationError" /\ Returned(r, "create_order", o, 1)

PickupOrderNotifyFails ==
  \E d \in DriverIds, o \in OrderIds, n \in {1, 2} :
    LET r == pickup_order(World, d, o, n) IN
      r.err = "NotificationError" /\ Returned(r, "pickup_order", o, n)

CompleteOrderNotifyFails ==
  \E d \in DriverIds, o \in OrderIds :
    LET r == complete_order(World, d, o, 1) IN
      r.err = "NotificationError" /\ Returned(r, "complete_order", o, 1)

CancelOrderNotifyFails ==
  \E o \in OrderIds, n \in {1, 2} :
    LET r == cancel_order(World, o, n) IN
      r.err = "NotificationError" /\ Returned(r, "cancel_order", o, n)

\* The payment collaborator raises in process_payment.
ProcessOrderPaymentFails ==
  \E o \in OrderIds :
    LET r == process_order_payment(World, o, 0, TRUE) IN
      r.err = "PaymentError" /\ Returned(r, "process_order_payment", o, 0)

NextSized ==
  \/ OnboardDriver
  \/ CreateOrder
  \/ CreateOrderSized
  \/ PickupOrder
  \/ CompleteOrder
  \/ CancelOrder

SpecSized == Init /\ [][NextSized]_vars

NextNotify ==
  \/ OnboardDriver
  \/ CreateOrder
  \/ PickupOrder
  \/ CompleteOrder
  \/ CancelOrder
  \/ CreateOrderNotifyFails
  \/ PickupOrderNotifyFails
  \/ CompleteOrderNotifyFails
  \/ CancelOrderNotifyFails

SpecNotify == Init /\ [][NextNotify]_vars

NextPayFails ==
  \/ OnboardDriver
  \/ CreateOrder
  \/ PickupOrder
  \/ CompleteOrder
  \/ CancelOrder
  \/ ProcessOrderPayment
  \/ ProcessOrderPaymentFails

SpecPayFails == Init /\ [][NextPayFails]_vars

\* ---- OrderExpirationScheduler
\* The sweeper thread runs _run; another thread calls stop(). Each action is
\* one step of one of them, or one second passing for whoever sleeps or
\* waits. sched.run is the place of the sweeper thread: "check" before the
\* test of the while loop, "call" after a test that found the event clear,
\* "pass" inside cleanup_expired_orders, "sleep" in time.sleep, "done" when
\* the loop is left.
InitSched == \E i \in Intervals : InitStores(0) /\ sched = Scheduler(i)

SchedStep(next) ==
  /\ sched' = next
  /\ UNCHANGED <<storeVars, now, lastOp, threadVars>>

\* start(): the thread starts running _run
SchedulerStart ==
  /\ sched.run = "new"
  /\ SchedStep([sched EXCEPT !.run = "check"])

\* while not self._stop_event.is_set()
RunCheck ==
  /\ sched.run = "check"
  /\ SchedStep([sched EXCEPT !.run = IF sched.stop_event THEN "done" ELSE "call"])

\* the call of cleanup_expired_orders begins
RunCall ==
  /\ sched.run = "call"
  /\ SchedStep([sched EXCEPT !.run = "pass"])

\* the pass ends, by a return or by an exception that _run logs, and
\* time.sleep(self.interval) begins
RunPassEnds ==
  /\ sched.run = "pass"
  /\ \E T \in Timeouts :
       LET r == cleanup_expired_orders(World, now, T) IN
         /\ r.err # "diverged"
         /\ EffectsOf(r)
         /\ lastOp' = [op |-> "cleanup_expired_orders", order_id |-> None, arg |-> T,
                        at |-> now, err |-> r.err]
  /\ sched' = [sched EXCEPT !.run = "sleep", !.sleep_left = sched.interval]
  /\ UNCHANGED <<now, threadVars>>

\* time.sleep returns
RunWake ==
  /\ sched.run = "sleep"
  /\ sched.sleep_left = 0
  /\ SchedStep([sched EXCEPT !.run = "check"])

\* stop(): self._stop_event.set(), then thread.join(timeout=2.0) begins
SchedulerStop ==
  /\ sched.stop = "idle"
  /\ sched.run # "new"
  /\ SchedStep([sched EXCEPT !.stop_event = TRUE, !.stop = "join",
                            !.join_left = JoinTimeout])

\* join returns: the thread has ended or the timeout has passed
StopReturns ==
  /\ sched.stop = "join"
  /\ sched.run = "done" \/ sched.join_left = 0
  /\ SchedStep([sched EXCEPT !.stop = "returned"])

\* One second passes, for the sleep and for the join. The sweeper thread
\* lets time pass only where it blocks: in time.sleep, and inside a pass
\* (which takes the lock and drains the queue); its loop test and its call
\* take no time.
Sleeping == sched.run = "sleep" /\ sched.sleep_left > 0
Joining == sched.stop = "join" /\ sched.join_left > 0 /\ sched.run # "done"

SchedTick ==
  /\ Sleeping \/ (Joining /\ sched.run = "pass")
  /\ SchedStep([sched EXCEPT
                  !.sleep_left = IF Sleeping THEN @ - 1 ELSE @,
                  !.join_left = IF Joining THEN @ - 1 ELSE @])

NextSched ==
  \/ CreateOrder
  \/ Tick
  \/ SchedulerStart
  \/ RunCheck
  \/ RunCall
  \/ RunPassEnds
  \/ RunWake
  \/ SchedulerStop
  \/ StopReturns
  \/ SchedTick

SpecSched == InitSched /\ [][NextSched]_vars

\* every thread keeps running and time keeps passing
SpecSchedFair ==
  /\ SpecSched
  /\ WF_vars(RunCheck) /\ WF_vars(RunCall) /\ WF_vars(RunPassEnds) /\ WF_vars(RunWake)
  /\ WF_vars(StopReturns) /\ WF_vars(SchedTick)

\* ================================================== interleaved calls
\* Each action below is one read or write of a shared object (or one
\* repository or queue call, which its lock makes atomic) of thread t,
\* together with the thread-local work that follows it.

Goto(t, label) == pc' = [pc EXCEPT ![t] = label] /\ UNCHANGED <<sched, locks>>

\* the call of thread t returns (err = "ok") or raises err to its caller
Finish(t, err) ==
  /\ pc' = [pc EXCEPT ![t] = "idle"]
  /\ loc' = [loc EXCEPT ![t] = Loc0]
  /\ lastOp' = [op |-> loc[t].op, order_id |-> loc[t].order_id,
                 arg |-> loc[t].swallowed, at |-> now, err |-> err]
  /\ UNCHANGED <<sched, locks>>

\* cancel_order returns or raises. Called by cleanup_expired_orders (lines
\* 281..285) a return and OrderNotCancellable both lead to the next order of
\* the scan; every other exception leaves the pass. swallowed counts the
\* exceptions the pass has caught (observation).
ReturnRaises(t, err) == Finish(t, err)
Return(t, err) ==
  IF loc[t].op = "cleanup_expired_orders" /\ err \in {"ok", "OrderNotCancellable"}
  THEN /\ pc' = [pc EXCEPT ![t] = "w_status"]
       /\ loc' = [loc EXCEPT ![t] =
                    [Loc0 EXCEPT !.op = loc[t].op, !.timeout = loc[t].timeout,
                                 !.at = loc[t].at, !.all = loc[t].all,
                                 !.idx = loc[t].idx + 1,
                                 !.swallowed = loc[t].swallowed +
                                   IF err = "OrderNotCancellable" THEN 1 ELSE 0]]
       /\ UNCHANGED <<lastOp, sched, locks>>
  ELSE Finish(t, err)

\* with self.lock: the RLock is free or already held by t
CanAcquireUnlocked(t) == TRUE
CanAcquire(t) == lock \in {None, t}

\* order ids being created by some thread
InFlight == {loc[u].order_id : u \in {v \in Threads : loc[v].op = "create_order"}}

\* a caller's new order id: the least id neither stored nor being created
FreshOrderIds ==
  LET free == OrderIds \ (DOMAIN order_store \cup InFlight)
  IN {o \in free : \A x \in free : o <= x}

\* ---- create_order
StartCreate(t) ==
  /\ pc[t] = "idle" /\ calls < MaxCalls
  /\ \E o \in FreshOrderIds, c \in customer_store :
       loc' = [loc EXCEPT ![t] = [Loc0 EXCEPT !.op = "create_order", !.order_id = o,
                                              !.driver_id = c]]
  /\ Goto(t, "c_get")
  /\ calls' = calls + 1
  /\ UNCHANGED <<storeVars, now, lastOp, lock>>

\* line 68..78: the duplicate check and the customer lookup
c_get(t) ==
  /\ pc[t] = "c_get"
  /\ IF loc[t].order_id \in DOMAIN order_store THEN Return(t, "DuplicateOrder")
     ELSE IF loc[t].driver_id \notin customer_store THEN Return(t, "CustomerNotFound")
     ELSE Goto(t, "c_save") /\ UNCHANGED <<loc, lastOp>>
  /\ UNCHANGED <<storeVars, now, lock, calls>>

\* the threads inside attempt_assignment whose order is the stored Order o
HoldersOf(o) ==
  {u \in Threads : /\ pc[u] \in {"a_scan", "a_busy", "a_update", "a_driver_id",
                                  "a_status", "a_queue"}
                   /\ loc[u].cur = o /\ loc[u].held = <<>>}

\* line 81..88: Order(...), repo.save, notify_email. The save binds the id to
\* the new Order; a thread that fetched the Order stored under this id before
\* keeps that object (held, a sequence of one Order), which the store no
\* longer refers to.
c_save(t) ==
  /\ pc[t] = "c_save"
  /\ LET w == save_order(World, loc[t].order_id, Order(now)) IN
       /\ order_store' = w.order_store
       /\ order_keys' = w.order_keys
  /\ Goto(t, "a_lock")
  /\ loc' = [u \in Threads |->
               IF u = t THEN [loc[t] EXCEPT !.cur = loc[t].order_id]
               ELSE IF loc[t].order_id \in DOMAIN order_store
                       /\ u \in HoldersOf(loc[t].order_id)
               THEN [loc[u] EXCEPT !.held = <<order_store[loc[t].order_id]>>]
               ELSE loc[u]]
  /\ UNCHANGED <<driver_store, driver_keys, pending_orders, payment_store, now, lastOp,
                 lock, calls>>

\* ---- attempt_assignment
\* what follows attempt_assignment's return: create_order (or the direct
\* caller) returns; the loop of on_driver_available returns on True and goes
\* on on False
AttemptReturn(t, ret) ==
  IF loc[t].op \in {"create_order", "attempt_assignment"} \/ ret
  THEN lock' = None /\ Return(t, "ok")
  ELSE Goto(t, "d_pop") /\ UNCHANGED <<loc, lastOp, lock>>

\* line 36: with self.lock
a_lock(t) ==
  /\ pc[t] = "a_lock"
  /\ CanAcquire(t)
  /\ lock' = t
  /\ Goto(t, "a_order")
  /\ UNCHANGED <<storeVars, now, lastOp, loc, calls>>

\* line 37..39: order_repo.get and the test of order.status
a_order(t) ==
  /\ pc[t] = "a_order"
  /\ IF loc[t].cur \notin DOMAIN order_store
        \/ order_store[loc[t].cur].status # "PENDING"
     THEN AttemptReturn(t, FALSE)
     ELSE /\ Goto(t, "a_scan")
          /\ loc' = [loc EXCEPT ![t].scan = 1, ![t].held = <<>>]
          /\ UNCHANGED <<lastOp, lock>>
  /\ UNCHANGED <<storeVars, now, calls>>

\* line 41..42: find_driver reads the status of the next driver of the list
a_scan(t) ==
  /\ pc[t] = "a_scan"
  /\ IF loc[t].scan > Len(driver_keys)
     THEN Goto(t, "a_queue") /\ loc' = [loc EXCEPT ![t].scan = 0]
     ELSE IF driver_store[driver_keys[loc[t].scan]].status = "AVAILABLE"
     THEN /\ Goto(t, "a_busy")
          /\ loc' = [loc EXCEPT ![t].drv = driver_keys[loc[t].scan], ![t].scan = 0]
     ELSE /\ Goto(t, "a_scan")
          /\ loc' = [loc EXCEPT ![t].scan = @ + 1]
  /\ UNCHANGED <<storeVars, now, lastOp, lock, calls>>

\* line 46: driver.status = BUSY
a_busy(t) ==
  /\ pc[t] = "a_busy"
  /\ driver_store' = [driver_store EXCEPT ![loc[t].drv].status = "BUSY"]
  /\ Goto(t, "a_update")
  /\ UNCHANGED <<order_store, order_keys, driver_keys, pending_orders, payment_store,
                 now, lastOp, loc, lock, calls>>

\* line 47: driver_service.update_status(driver.id, BUSY)
a_update(t) ==
  /\ pc[t] = "a_update"
  /\ driver_store' = update_status(World, loc[t].drv, "BUSY").w.driver_store
  /\ Goto(t, "a_driver_id")
  /\ UNCHANGED <<order_store, order_keys, driver_keys, pending_orders, payment_store,
                 now, lastOp, loc, lock, calls>>

\* line 49: order.driver_id = driver.id
a_driver_id(t) ==
  /\ pc[t] = "a_driver_id"
  /\ IF loc[t].held = <<>>
     THEN /\ order_store' = [order_store EXCEPT ![loc[t].cur].driver_id = loc[t].drv]
          /\ UNCHANGED loc
     ELSE /\ loc' = [loc EXCEPT ![t].held[1].driver_id = loc[t].drv]
          /\ UNCHANGED order_store
  /\ Goto(t, "a_status")
  /\ UNCHANGED <<order_keys, driver_store, driver_keys, pending_orders, payment_store,
                 now, lastOp, lock, calls>>

\* line 50..54: order.status = ASSIGNED, save, return True
a_status(t) ==
  /\ pc[t] = "a_status"
  /\ order_store' =
       IF loc[t].held = <<>>
       THEN [order_store EXCEPT ![loc[t].cur].status = "ASSIGNED"]
       ELSE save_order(World, loc[t].cur,
                       [loc[t].held[1] EXCEPT !.status = "ASSIGNED"]).order_store
  /\ AttemptReturn(t, TRUE)
  /\ UNCHANGED <<order_keys, driver_store, driver_keys, pending_orders, payment_store,
                 now, calls>>

\* line 57..60: queue the order unless it is queued; return False
a_queue_skipped(t) ==
  /\ pc[t] = "a_queue"
  /\ AttemptReturn(t, FALSE)
  /\ UNCHANGED <<order_store, order_keys, driver_store, driver_keys, pending_orders,
                 payment_store, now, calls>>
a_queue_append(t) ==
  /\ pc[t] = "a_queue"
  /\ pending_orders' = Append(pending_orders, loc[t].cur)
  /\ AttemptReturn(t, FALSE)
  /\ UNCHANGED <<order_store, order_keys, driver_store, driver_keys, payment_store,
                 now, calls>>
a_queue(t) ==
  /\ pc[t] = "a_queue"
  /\ pending_orders' = IF loc[t].cur \in Range(pending_orders) THEN pending_orders
                       ELSE Append(pending_orders, loc[t].cur)
  /\ AttemptReturn(t, FALSE)
  /\ UNCHANGED <<order_store, order_keys, driver_store, driver_keys, payment_store,
                 now, calls>>

\* ---- on_driver_available
\* line 64: with self.lock
d_lock(t) ==
  /\ pc[t] = "d_lock"
  /\ CanAcquire(t)
  /\ lock' = t
  /\ Goto(t, "d_pop")
  /\ UNCHANGED <<storeVars, now, lastOp, loc, calls>>

\* line 65..66: while self.pending_orders: order_id = self.pending_orders.pop(0)
d_pop(t) ==
  /\ pc[t] = "d_pop"
  /\ IF pending_orders = <<>>
     THEN lock' = None /\ Return(t, "ok") /\ UNCHANGED pending_orders
     ELSE /\ pending_orders' = pop_first(pending_orders).rest
          /\ loc' = [loc EXCEPT ![t].cur = pop_first(pending_orders).order_id]
          /\ Goto(t, "a_order")
          /\ UNCHANGED <<lastOp, lock>>
  /\ UNCHANGED <<order_store, order_keys, driver_store, driver_keys, payment_store,
                 now, calls>>

\* ---- cancel_order
StartCancel(t) ==
  /\ pc[t] = "idle" /\ calls < MaxCalls
  /\ \E o \in OrderIds :
       loc' = [loc EXCEPT ![t] = [Loc0 EXCEPT !.op = "cancel_order", !.order_id = o]]
  /\ Goto(t, "x_check")
  /\ calls' = calls + 1
  /\ UNCHANGED <<storeVars, now, lastOp, lock>>

\* line 214..219: repo.get and order.can_be_cancelled()
x_check(t) ==
  /\ pc[t] = "x_check"
  /\ IF loc[t].order_id \notin DOMAIN order_store THEN Return(t, "OrderNotFound")
     ELSE IF ~can_be_cancelled(order_store[loc[t].order_id])
     THEN Return(t, "OrderNotCancellable")
     ELSE Goto(t, "x_prev") /\ UNCHANGED <<loc, lastOp>>
  /\ UNCHANGED <<storeVars, now, lock, calls>>

\* line 221: prev_driver_id = order.driver_id
x_prev(t) ==
  /\ pc[t] = "x_prev"
  /\ loc' = [loc EXCEPT ![t].prev = order_store[loc[t].order_id].driver_id]
  /\ Goto(t, "x_status")
  /\ UNCHANGED <<storeVars, now, lastOp, lock, calls>>

\* line 222: order.status = CANCELLED
x_status(t) ==
  /\ pc[t] = "x_status"
  /\ order_store' = [order_store EXCEPT ![loc[t].order_id].status = "CANCELLED"]
  /\ Goto(t, "x_driver_id")
  /\ UNCHANGED <<order_keys, driver_store, driver_keys, pending_orders, payment_store,
                 now, lastOp, loc, lock, calls>>

\* line 223..229: order.driver_id = None, save, notify, if prev_driver_id
x_driver_id(t) ==
  /\ pc[t] = "x_driver_id"
  /\ order_store' = [order_store EXCEPT ![loc[t].order_id].driver_id = None]
  /\ IF loc[t].prev = None THEN Return(t, "ok")
     ELSE Goto(t, "x_free") /\ UNCHANGED <<loc, lastOp>>
  /\ UNCHANGED <<order_keys, driver_store, driver_keys, pending_orders, payment_store,
                 now, lock, calls>>

\* line 231..235: update_status(prev_driver_id, AVAILABLE), notify, then
\* on_driver_available
x_free(t) ==
  /\ pc[t] = "x_free"
  /\ LET r == update_status(World, loc[t].prev, "AVAILABLE") IN
       /\ driver_store' = r.w.driver_store
       /\ IF r.err # "ok" THEN Return(t, r.err)
          ELSE Goto(t, "d_lock") /\ UNCHANGED <<loc, lastOp>>
  /\ UNCHANGED <<order_store, order_keys, driver_keys, pending_orders, payment_store,
                 now, lock, calls>>

\* ---- pickup_order
StartPickup(t) ==
  /\ pc[t] = "idle" /\ calls < MaxCalls
  /\ \E o \in OrderIds, d \in DriverIds :
       loc' = [loc EXCEPT ![t] = [Loc0 EXCEPT !.op = "pickup_order", !.order_id = o,
                                              !.driver_id = d]]
  /\ Goto(t, "p_status")
  /\ calls' = calls + 1
  /\ UNCHANGED <<storeVars, now, lastOp, lock>>

\* line 127..137: repo.get and the test of order.status
p_status(t) ==
  /\ pc[t] = "p_status"
  /\ IF loc[t].order_id \notin DOMAIN order_store THEN Return(t, "OrderNotFound")
     ELSE IF order_store[loc[t].order_id].status # "ASSIGNED"
     THEN Return(t, "InvalidOrderState")
     ELSE Goto(t, "p_driver_id") /\ UNCHANGED <<loc, lastOp>>
  /\ UNCHANGED <<storeVars, now, lock, calls>>

\* line 139..140: the test of order.driver_id
p_driver_id(t) ==
  /\ pc[t] = "p_driver_id"
  /\ IF order_store[loc[t].order_id].driver_id # loc[t].driver_id
     THEN Return(t, "DriverNotAssigned")
     ELSE Goto(t, "p_write") /\ UNCHANGED <<loc, lastOp>>
  /\ UNCHANGED <<storeVars, now, lock, calls>>

\* line 142..153: order.status = PICKED_UP, save, the notifications
p_write(t) ==
  /\ pc[t] = "p_write"
  /\ order_store' = [order_store EXCEPT ![loc[t].order_id].status = "PICKED_UP"]
  /\ Return(t, "ok")
  /\ UNCHANGED <<order_keys, driver_store, driver_keys, pending_orders, payment_store,
                 now, lock, calls>>

\* ---- complete_order
StartComplete(t) ==
  /\ pc[t] = "idle" /\ calls < MaxCalls
  /\ \E o \in OrderIds, d \in DriverIds :
       loc' = [loc EXCEPT ![t] = [Loc0 EXCEPT !.op = "complete_order", !.order_id = o,
                                              !.driver_id = d]]
  /\ Goto(t, "f_status")
  /\ calls' = calls + 1
  /\ UNCHANGED <<storeVars, now, lastOp, lock>>

\* line 168..178: repo.get and the test of order.status
f_status(t) ==
  /\ pc[t] = "f_status"
  /\ IF loc[t].order_id \notin DOMAIN order_store THEN Return(t, "OrderNotFound")
     ELSE IF order_store[loc[t].order_id].status # "PICKED_UP"
     THEN Return(t, "InvalidOrderState")
     ELSE Goto(t, "f_driver_id") /\ UNCHANGED <<loc, lastOp>>
  /\ UNCHANGED <<storeVars, now, lock, calls>>

\* line 180..181: the test of order.driver_id
f_driver_id(t) ==
  /\ pc[t] = "f_driver_id"
  /\ IF order_store[loc[t].order_id].driver_id # loc[t].driver_id
     THEN Return(t, "DriverNotAssigned")
     ELSE Goto(t, "f_write") /\ UNCHANGED <<loc, lastOp>>
  /\ UNCHANGED <<storeVars, now, lock, calls>>

\* line 183..184: order.status = DELIVERED, save
f_write(t) ==
  /\ pc[t] = "f_write"
  /\ order_store' = [order_store EXCEPT ![loc[t].order_id].status = "DELIVERED"]
  /\ Goto(t, "f_if")
  /\ UNCHANGED <<order_keys, driver_store, driver_keys, pending_orders, payment_store,
                 now, lastOp, loc, lock, calls>>

\* line 187: if order.driver_id
f_if(t) ==
  /\ pc[t] = "f_if"
  /\ IF order_store[loc[t].order_id].driver_id = None THEN Return(t, "ok")
     ELSE Goto(t, "f_free") /\ UNCHANGED <<loc, lastOp>>
  /\ UNCHANGED <<storeVars, now, lock, calls>>

\* line 189: update_status(order.driver_id, AVAILABLE), order.driver_id read
\* anew (update_status raises DriverNotFound for None)
f_free(t) ==
  /\ pc[t] = "f_free"
  /\ LET r == update_status(World, order_store[loc[t].order_id].driver_id, "AVAILABLE") IN
       /\ driver_store' = r.w.driver_store
       /\ IF r.err # "ok" THEN Return(t, r.err)
          ELSE Goto(t, "f_get") /\ UNCHANGED <<loc, lastOp>>
  /\ UNCHANGED <<order_store, order_keys, driver_keys, pending_orders, payment_store,
                 now, lock, calls>>

\* line 191..193: driver = get_driver(order.driver_id), the read of
\* driver.order_count (order.driver_id read anew; no driver for None)
f_get(t) ==
  /\ pc[t] = "f_get"
  /\ LET d == order_store[loc[t].order_id].driver_id IN
       IF d \in DOMAIN driver_store
       THEN /\ loc' = [loc EXCEPT ![t].drv = d, ![t].cnt = driver_store[d].order_count]
            /\ Goto(t, "f_count")
       ELSE Goto(t, "d_lock") /\ UNCHANGED loc
  /\ UNCHANGED <<storeVars, now, lastOp, lock, calls>>

\* line 193..201: the write of driver.order_count += 1, save, notify, then
\* on_driver_available
f_count(t) ==
  /\ pc[t] = "f_count"
  /\ driver_store' = [driver_store EXCEPT ![loc[t].drv].order_count = loc[t].cnt + 1]
  /\ Goto(t, "d_lock")
  /\ UNCHANGED <<order_store, order_keys, driver_keys, pending_orders, payment_store,
                 now, lastOp, loc, lock, calls>>

\* ---- the specifications of interleaved calls
\* a step of thread t inside a call
\* ---- cleanup_expired_orders
StartSweep(t) ==
  /\ pc[t] = "idle" /\ calls < MaxCalls
  /\ \E T \in Timeouts :
       loc' = [loc EXCEPT ![t] = [Loc0 EXCEPT !.op = "cleanup_expired_orders",
                                              !.timeout = T]]
  /\ Goto(t, "w_all")
  /\ calls' = calls + 1
  /\ UNCHANGED <<storeVars, now, lastOp, lock>>

\* line 273..274: all_orders = self.repo.all() (the orders stored so far, in
\* insertion order), now = time.time()
w_all(t) ==
  /\ pc[t] = "w_all"
  /\ loc' = [loc EXCEPT ![t].all = Len(order_keys), ![t].at = now, ![t].idx = 1]
  /\ Goto(t, "w_status")
  /\ UNCHANGED <<storeVars, now, lastOp, lock, calls>>

\* line 276..282: the next order of the scan: its status and its age are
\* read, and cancel_order is called if it is PENDING or ASSIGNED and expired
w_status(t) ==
  /\ pc[t] = "w_status"
  /\ IF loc[t].idx > loc[t].all THEN Finish(t, "ok")
     ELSE LET id == order_keys[loc[t].idx]
              order == order_store[id]
          IN /\ IF sweepable(order) /\ is_expired(loc[t].at, order.created_at, loc[t].timeout)
                THEN /\ loc' = [loc EXCEPT ![t].order_id = id]
                     /\ Goto(t, "x_check")
                ELSE /\ loc' = [loc EXCEPT ![t].idx = @ + 1]
                     /\ Goto(t, "w_status")
             /\ UNCHANGED lastOp
  /\ UNCHANGED <<storeVars, now, lock, calls>>

SweepCallStep(t) == w_all(t) \/ w_status(t)

ThreadStep(t) ==
  \/ c_get(t) \/ c_save(t)
  \/ a_lock(t) \/ a_order(t) \/ a_scan(t) \/ a_busy(t) \/ a_update(t)
  \/ a_driver_id(t) \/ a_status(t) \/ a_queue(t)
  \/ d_lock(t) \/ d_pop(t)
  \/ x_check(t) \/ x_prev(t) \/ x_status(t) \/ x_driver_id(t) \/ x_free(t)
  \/ p_status(t) \/ p_driver_id(t) \/ p_write(t)
  \/ f_status(t) \/ f_driver_id(t) \/ f_write(t) \/ f_if(t) \/ f_free(t)
  \/ f_get(t) \/ f_count(t)

\* thread t calls the controller
StartCall(t) ==
  \/ StartCreate(t) \/ StartCancel(t) \/ StartPickup(t) \/ StartComplete(t)

NextConc == \E t \in 1..ConcThreads : StartCall(t) \/ ThreadStep(t)

\* ConcThreads threads call create_order, cancel_order, pickup_order and
\* complete_order, MaxCalls calls in all
SpecConc == InitConc /\ [][NextConc]_vars

\* the same, every started call being scheduled again and again
SpecConcFair == SpecConc /\ \A t \in 1..ConcThreads : WF_vars(ThreadStep(t))

\* a step of thread t inside create_order
CreateStep(t) ==
  \/ c_get(t) \/ c_save(t)
  \/ a_lock(t) \/ a_order(t) \/ a_scan(t) \/ a_busy(t) \/ a_update(t)
  \/ a_driver_id(t) \/ a_status(t) \/ a_queue(t)

NextCreate == \E t \in Threads : StartCreate(t) \/ CreateStep(t)

\* every thread calls create_order with an id of its own
SpecCreate == InitConc /\ [][NextCreate]_vars

\* create_order called with any order id, stored or being created or new
StartCreateSame(t) ==
  /\ pc[t] = "idle" /\ calls < MaxCalls
  /\ \E o \in OrderIds, c \in customer_store :
       loc' = [loc EXCEPT ![t] = [Loc0 EXCEPT !.op = "create_order", !.order_id = o,
                                              !.driver_id = c]]
  /\ Goto(t, "c_get")
  /\ calls' = calls + 1
  /\ UNCHANGED <<storeVars, now, lastOp, lock>>

NextCreateSame == \E t \in Threads : StartCreateSame(t) \/ CreateStep(t)

\* the threads call create_order, several of them with the same id
SpecCreateSame == InitConc /\ [][NextCreateSame]_vars

\* ---- process_order_payment
StartPay(t) ==
  /\ pc[t] = "idle" /\ calls < MaxCalls
  /\ \E o \in OrderIds :
       loc' = [loc EXCEPT ![t] = [Loc0 EXCEPT !.op = "process_order_payment",
                                              !.order_id = o]]
  /\ Goto(t, "y_get")
  /\ calls' = calls + 1
  /\ UNCHANGED <<storeVars, now, lastOp, lock>>

\* line 246..252: repo.get and the test of order.is_paid
y_get(t) ==
  /\ pc[t] = "y_get"
  /\ IF loc[t].order_id \notin DOMAIN order_store THEN Return(t, "OrderNotFound")
     ELSE IF already_paid(order_store[loc[t].order_id]) THEN Return(t, "ok")
     ELSE Goto(t, "y_pay") /\ UNCHANGED <<loc, lastOp>>
  /\ UNCHANGED <<storeVars, now, lock, calls>>

\* line 254: payment = self.payment_service.process_payment(...)
y_pay(t) ==
  /\ pc[t] = "y_pay"
  /\ LET payment == process_payment(World, loc[t].order_id) IN
       /\ payment_store' = payment.w.payment_store
       /\ loc' = [loc EXCEPT ![t].payment = payment.id]
  /\ Goto(t, "y_payment_id")
  /\ UNCHANGED <<order_store, order_keys, driver_store, driver_keys, pending_orders,
                 now, lastOp, lock, calls>>

\* line 255: order.payment_id = payment.id
y_payment_id(t) ==
  /\ pc[t] = "y_payment_id"
  /\ order_store' = [order_store EXCEPT ![loc[t].order_id].payment_id = loc[t].payment]
  /\ Goto(t, "y_is_paid")
  /\ UNCHANGED <<order_keys, driver_store, driver_keys, pending_orders, payment_store,
                 now, lastOp, loc, lock, calls>>

\* line 256..261: order.is_paid = True, save, notify
y_is_paid(t) ==
  /\ pc[t] = "y_is_paid"
  /\ order_store' = [order_store EXCEPT ![loc[t].order_id].is_paid = TRUE]
  /\ Return(t, "ok")
  /\ UNCHANGED <<order_keys, driver_store, driver_keys, pending_orders, payment_store,
                 now, lock, calls>>

PayCallStep(t) == y_get(t) \/ y_pay(t) \/ y_payment_id(t) \/ y_is_paid(t)

NextConcPay ==
  \E t \in 1..ConcThreads :
    StartCreate(t) \/ CreateStep(t) \/ StartPay(t) \/ PayCallStep(t)

\* ConcThreads threads call create_order and process_order_payment
SpecConcPay == InitConc /\ [][NextConcPay]_vars

\* ---- the sweep pass among the controller's calls
NextSweep ==
  \/ \E t \in 1..ConcThreads :
       StartCall(t) \/ StartSweep(t) \/ ThreadStep(t) \/ SweepCallStep(t)
  \/ Tick

\* ConcThreads threads call the controller and cleanup_expired_orders while
\* time passes
SpecSweep == InitConc /\ [][NextSweep]_vars

\* ---- the assignment engine called directly
StartAttempt(t) ==
  /\ pc[t] = "idle" /\ calls < MaxCalls
  /\ \E o \in OrderIds :
       loc' = [loc EXCEPT ![t] = [Loc0 EXCEPT !.op = "attempt_assignment", !.order_id = o,
                                              !.cur = o]]
  /\ Goto(t, "a_lock")
  /\ calls' = calls + 1
  /\ UNCHANGED <<storeVars, now, lastOp, lock>>

StartDrain(t) ==
  /\ pc[t] = "idle" /\ calls < MaxCalls
  /\ loc' = [loc EXCEPT ![t] = [Loc0 EXCEPT !.op = "on_driver_available"]]
  /\ Goto(t, "d_lock")
  /\ calls' = calls + 1
  /\ UNCHANGED <<storeVars, now, lastOp, lock>>

NextConcEngine ==
  \E t \in 1..ConcThreads :
    StartCall(t) \/ StartAttempt(t) \/ StartDrain(t) \/ ThreadStep(t)

\* ConcThreads threads call the controller and the assignment engine
SpecConcEngine == InitConc /\ [][NextConcEngine]_vars

\* ================================================================ locks
\* What a call acquires and releases, in the order of the code; the data is
\* left out, so every branch of a call is a program of its own. Own is a
\* statement of OrderService itself, outside every collaborator.
MaxDrain == 2

Acq(l) == [e |-> "acquire", l |-> l]
Rel(l) == [e |-> "release", l |-> l]
Own == [e |-> "own", l |-> "none"]

\* InMemoryRepository.save, get, all: with self._lock around one dict access
RepoCall(l) == <<Acq(l), Rel(l)>>

\* DriverService.update_status: repo.get, repo.save
update_status_locks == RepoCall("drivers") \o RepoCall("drivers")

\* attempt_assignment: order not PENDING; no driver found; driver found
attempt_assignment_locks_inverted ==
  [refused |-> RepoCall("orders"),
   queued |-> <<Acq("orders"), Acq("engine"), Rel("engine"), Rel("orders")>>,
   assigned |-> <<Acq("orders"), Acq("drivers"), Acq("engine"), Rel("engine"),
                  Rel("drivers"), Rel("orders")>>]
attempt_assignment_locks ==
  [refused |-> <<Acq("engine")>> \o RepoCall("orders") \o <<Rel("engine")>>,
   queued |-> <<Acq("engine")>> \o RepoCall("orders") \o RepoCall("drivers")
                \o <<Rel("engine")>>,
   assigned |-> <<Acq("engine")>> \o RepoCall("orders") \o RepoCall("drivers")
                  \o update_status_locks \o RepoCall("orders") \o <<Rel("engine")>>]

\* on_driver_available: up to MaxDrain attempts under the engine lock, the
\* loop ending with the first attempt that assigns or with the queue empty
RECURSIVE DrainBodies(_)
DrainBodies(n) ==
  IF n = 0 THEN {<<>>}
  ELSE {<<>>, attempt_assignment_locks.assigned}
       \cup {first \o rest : first \in {attempt_assignment_locks.refused,
                                        attempt_assignment_locks.queued},
                             rest \in DrainBodies(n - 1)}

on_driver_available_locks ==
  {<<Acq("engine")>> \o body \o <<Rel("engine")>> : body \in DrainBodies(MaxDrain)}

create_order_locks ==
  {<<Own>> \o RepoCall("orders") \o <<Own>>}
  \cup {<<Own>> \o RepoCall("orders") \o <<Own>> \o RepoCall("orders") \o <<Own>>
          \o attempt_assignment_locks[b] \o <<Own>> :
        b \in {"refused", "queued", "assigned"}}

pickup_order_locks ==
  {<<Own>> \o RepoCall("orders") \o <<Own>>,
   <<Own>> \o RepoCall("orders") \o <<Own>> \o RepoCall("orders") \o <<Own>>}

complete_order_locks ==
  {<<Own>> \o RepoCall("orders") \o <<Own>>}
  \cup {<<Own>> \o RepoCall("orders") \o <<Own>> \o RepoCall("orders")
          \o update_status_locks \o RepoCall("drivers") \o RepoCall("drivers")
          \o <<Own>> \o drain \o <<Own>> :
        drain \in on_driver_available_locks}

cancel_order_locks ==
  {<<Own>> \o RepoCall("orders") \o <<Own>>,
   <<Own>> \o RepoCall("orders") \o <<Own>> \o RepoCall("orders") \o <<Own>>}
  \cup {<<Own>> \o RepoCall("orders") \o <<Own>> \o RepoCall("orders") \o <<Own>>
          \o update_status_locks \o <<Own>> \o drain \o <<Own>> :
        drain \in on_driver_available_locks}

\* cleanup_expired_orders: repo.all, then no cancel_order or one
cleanup_expired_orders_locks ==
  {<<Own>> \o RepoCall("orders") \o <<Own>>}
  \cup {<<Own>> \o RepoCall("orders") \o <<Own>> \o c : c \in cancel_order_locks}

\* DriverService.onboard_driver: repo.get, repo.save
onboard_driver_locks == {RepoCall("drivers"), RepoCall("drivers") \o RepoCall("drivers")}

CallLocks ==
  create_order_locks \cup pickup_order_locks \cup complete_order_locks
  \cup cancel_order_locks \cup cleanup_expired_orders_locks \cup onboard_driver_locks
  \cup on_driver_available_locks
  \cup {attempt_assignment_locks[b] : b \in {"refused", "queued", "assigned"}}

LockFrame == UNCHANGED <<storeVars, now, lastOp, pc, loc, lock, calls, sched>>

\* thread t begins a call
LockCall(t) ==
  /\ locks.todo[t] = <<>>
  /\ \E p \in CallLocks : locks' = [locks EXCEPT !.todo[t] = p]
  /\ LockFrame

NextEvent(t, e) == locks.todo[t] # <<>> /\ Head(locks.todo[t]).e = e

\* with lock: an RLock is taken when it is free or held by t already
Acquire(t) ==
  /\ NextEvent(t, "acquire")
  /\ LET l == Head(locks.todo[t]).l IN
       /\ locks.owner[l] \in {None, t}
       /\ locks' = [locks EXCEPT !.owner[l] = t, !.depth[l] = @ + 1,
                                 !.todo[t] = Tail(@)]
  /\ LockFrame

\* the end of a with block
Release(t) ==
  /\ NextEvent(t, "release")
  /\ LET l == Head(locks.todo[t]).l IN
       locks' = [locks EXCEPT !.owner[l] = IF locks.depth[l] = 1 THEN None ELSE t,
                              !.depth[l] = @ - 1,
                              !.todo[t] = Tail(@)]
  /\ LockFrame

\* a statement of OrderService
OwnStatement(t) ==
  /\ NextEvent(t, "own")
  /\ locks' = [locks EXCEPT !.todo[t] = Tail(@)]
  /\ LockFrame

NextLocks ==
  \E t \in 1..ConcThreads : LockCall(t) \/ Acquire(t) \/ Release(t) \/ OwnStatement(t)

SpecLocks == Init /\ [][NextLocks]_vars

\* ================================================================ claims
Stored == DOMAIN order_store
Onboarded == DOMAIN driver_store
Quiescent == \A t \in Threads : pc[t] = "idle"
WithStatus(S) == {o \in Stored : order_store[o].status \in S}
\* the place of order o in the order repository (its creation rank)
Rank(o) == CHOOSE i \in 1..Len(order_keys) : order_keys[i] = o
Min(a, b) == IF a < b THEN a ELSE b

\* C1: under every interleaving of cancel_order with pickup_order and
\* complete_order, an order that is PICKED_UP (or DELIVERED, which is entered
\* from PICKED_UP only) is not CANCELLED by any later step.
C1_PickedUpNeverCancelled ==
  [][\A o \in Stored :
       order_store[o].status \in {"PICKED_UP", "DELIVERED"}
         => order_store'[o].status # "CANCELLED"]_vars

\* C2: after any sequence of controller calls made one at a time, a stored
\* order has a driver_id exactly when it is ASSIGNED, PICKED_UP or DELIVERED.
C2_DriverIdIffHeld ==
  \A o \in Stored :
    order_store[o].driver_id # None
      <=> order_store[o].status \in {"ASSIGNED", "PICKED_UP", "DELIVERED"}

\* C2 witness: an assigned order was cancelled while another order is
\* delivered and paid and a third waits in the queue.
C2_Witness ==
  /\ lastOp.op = "cancel_order" /\ lastOp.err = "ok"
  /\ \E a, b, c \in Stored :
       /\ order_store[a].status = "DELIVERED" /\ order_store[a].is_paid
       /\ order_store[b].status = "CANCELLED" /\ b = lastOp.order_id
       /\ order_store[c].status = "ASSIGNED" /\ order_store[c].driver_id # None

\* C3: after any sequence of controller calls made one at a time, a driver
\* is BUSY exactly when exactly one ASSIGNED or PICKED_UP order names it.
C3_BusyIffOneActiveOrder ==
  \A d \in Onboarded :
    driver_store[d].status = "BUSY"
      <=> Cardinality({o \in WithStatus({"ASSIGNED", "PICKED_UP"}) :
                         order_store[o].driver_id = d}) = 1

\* C3 witness: one driver has delivered an order and is free again while the
\* other one holds a picked up order.
C3_Witness ==
  /\ lastOp.op = "complete_order" /\ lastOp.err = "ok"
  /\ \E d, e \in Onboarded :
       /\ driver_store[d].status = "AVAILABLE" /\ driver_store[d].order_count = 1
       /\ driver_store[e].status = "BUSY"
       /\ \E o \in WithStatus({"PICKED_UP"}) : order_store[o].driver_id = e

\* C4: whenever concurrent create_order calls with distinct ids have all
\* returned, calls of them having been made with K drivers onboarded and
\* AVAILABLE, Min(calls, K) orders are ASSIGNED and the others PENDING (and
\* queued), all are stored, none raised, and no driver is the driver of two
\* orders (the latter at every moment).
C4_ConcurrentCreates ==
  /\ \A a, b \in Stored :
       a # b /\ order_store[a].driver_id # None
         => order_store[a].driver_id # order_store[b].driver_id
  /\ lastOp.op = "create_order" => lastOp.err = "ok"
  /\ Quiescent =>
       /\ Cardinality(Stored) = calls
       /\ Cardinality(WithStatus({"ASSIGNED"})) = Min(calls, Len(driver_keys))
       /\ Cardinality(WithStatus({"PENDING"})) = calls - Min(calls, Len(driver_keys))
       /\ Range(pending_orders) = WithStatus({"PENDING"})

\* C4 witness: three creates have returned with two drivers onboarded.
C4_Witness ==
  /\ Quiescent /\ calls = 3 /\ Len(driver_keys) = 2
  /\ Cardinality(WithStatus({"ASSIGNED"})) = 2
  /\ Len(pending_orders) = 1

\* C5: every started call eventually returns when the threads are scheduled
\* fairly (the drain loop of on_driver_available included).
C5_EveryCallReturns ==
  \A t \in 1..ConcThreads : (pc[t] # "idle") ~> (pc[t] = "idle")

\* a step that is a complete_order or a cancel_order call freeing a driver
FreeingStep ==
  \/ \E d \in DriverIds, o \in WithStatus({"PICKED_UP"}) :
       /\ order_store[o].driver_id = d
       /\ Returned(complete_order(World, d, o, 0), "complete_order", o, 0)
  \/ \E o \in WithStatus({"ASSIGNED"}) :
       Returned(cancel_order(World, o, 0), "cancel_order", o, 0)

\* the orders a step takes from PENDING to ASSIGNED
NewlyAssigned ==
  {o \in Stored : order_store[o].status = "PENDING" /\ order_store'[o].status = "ASSIGNED"}

\* C6: a call that frees a driver (complete_order, or cancel_order of an
\* ASSIGNED order) assigns exactly the earliest created PENDING order, which
\* is queued, and nothing when no order is PENDING.
C6_FifoAssignment ==
  [][FreeingStep =>
       IF WithStatus({"PENDING"}) = {} THEN NewlyAssigned = {}
       ELSE \E o \in WithStatus({"PENDING"}) :
              /\ o \in Range(pending_orders)
              /\ \A x \in WithStatus({"PENDING"}) : Rank(o) <= Rank(x)
              /\ NewlyAssigned = {o}]_vars

\* C6 witness: of two orders queued behind an assigned one, the earlier has
\* got the driver freed by the completion and the later still waits.
C6_Witness ==
  /\ lastOp.op = "complete_order" /\ lastOp.err = "ok"
  /\ \E a, b, c \in Stored :
       /\ Rank(a) < Rank(b) /\ Rank(b) < Rank(c)
       /\ a = lastOp.order_id /\ order_store[a].status = "DELIVERED"
       /\ order_store[b].status = "ASSIGNED"
       /\ order_store[b].driver_id = order_store[a].driver_id
       /\ order_store[c].status = "PENDING" /\ pending_orders = <<c>>

\* the edges of the order state machine
StatusEdges ==
  {<<"PENDING", "ASSIGNED">>, <<"PENDING", "CANCELLED">>, <<"ASSIGNED", "PICKED_UP">>,
   <<"ASSIGNED", "CANCELLED">>, <<"PICKED_UP", "DELIVERED">>}

\* C7: under every interleaving, no step removes a stored order and a step
\* changes an order's status along an edge of the state machine only (so
\* DELIVERED and CANCELLED are never left).
C7_StatusChangesAlongEdges ==
  [][\A o \in Stored :
       /\ o \in DOMAIN order_store'
       /\ \/ order_store'[o].status = order_store[o].status
          \/ <<order_store[o].status, order_store'[o].status>> \in StatusEdges]_vars

\* a step that is a whole sweep pass with timeout T
SweepStep(T) ==
  Returned(cleanup_expired_orders(World, now, T), "cleanup_expired_orders", None, T)

\* C8: a sweep pass with timeout T leaves no order older than T PENDING or
\* ASSIGNED.
C8_SweepCancelsExpired ==
  [][\A T \in Timeouts :
       SweepStep(T) =>
         \A o \in Stored :
           now - order_store[o].created_at > T
             => order_store'[o].status \notin {"PENDING", "ASSIGNED"}]_vars

\* C8 witness: a state a sweep pass with timeout 0 is run in, where the only
\* driver holds an expired ASSIGNED order and a later expired order is queued;
\* the pass frees the driver, which gets the queued order, and cancels both.
C8_Witness ==
  \E a, b \in Stored :
    /\ Rank(a) < Rank(b) /\ Len(driver_keys) = 1
    /\ order_store[a].status = "ASSIGNED" /\ order_store[b].status = "PENDING"
    /\ pending_orders = <<b>>
    /\ now - order_store[a].created_at > 0 /\ now - order_store[b].created_at > 0
    /\ cancel_order(World, a, 0).w.order_store[b].status = "ASSIGNED"
    /\ LET r == cleanup_expired_orders(World, now, 0) IN
         /\ r.err = "ok"
         /\ r.w.order_store[a].status = "CANCELLED"
         /\ r.w.order_store[b].status = "CANCELLED"
         /\ r.w.driver_store[1].status = "AVAILABLE"

\* C9: a sweep pass with timeout T leaves every PICKED_UP, DELIVERED or
\* CANCELLED order as it is, cancels no order of age at most T, and changes
\* an order only by cancelling it (it was PENDING or ASSIGNED and older than
\* T) or by the assignment a cancellation's drain makes (it was PENDING);
\* without an expired PENDING or ASSIGNED order it changes nothing at all.
C9_SweepFrame ==
  [][\A T \in Timeouts :
       SweepStep(T) =>
         /\ \A o \in Stored :
              /\ order_store[o].status \in {"PICKED_UP", "DELIVERED", "CANCELLED"}
                   => order_store'[o] = order_store[o]
              /\ now - order_store[o].created_at <= T
                   /\ order_store[o].status # "CANCELLED"
                   => order_store'[o].status # "CANCELLED"
              /\ order_store'[o] # order_store[o] =>
                   \/ /\ order_store[o].status \in {"PENDING", "ASSIGNED"}
                      /\ now - order_store[o].created_at > T
                      /\ order_store'[o] = [order_store[o] EXCEPT !.status = "CANCELLED",
                                                                  !.driver_id = None]
                   \/ /\ order_store[o].status = "PENDING"
                      /\ order_store'[o].status = "ASSIGNED"
                      /\ order_store'[o].driver_id \in Onboarded
         /\ UNCHANGED <<order_keys, driver_keys, payment_store>>
         /\ \A d \in Onboarded : driver_store'[d].order_count = driver_store[d].order_count
         /\ (\A o \in WithStatus({"PENDING", "ASSIGNED"}) :
               now - order_store[o].created_at <= T)
              => UNCHANGED storeVars]_vars

\* C9 witness: a pass with timeout 0 has cancelled the expired order and has
\* left alone an older PICKED_UP order and a PENDING or ASSIGNED order whose
\* age equals the timeout.
C9_Witness ==
  /\ lastOp.op = "cleanup_expired_orders" /\ lastOp.err = "ok"
  /\ lastOp.arg = 0 /\ lastOp.at = now
  /\ \E a, b, c \in Stored :
       /\ order_store[a].status = "PICKED_UP" /\ now - order_store[a].created_at > 0
       /\ order_store[b].status = "CANCELLED" /\ now - order_store[b].created_at > 0
       /\ order_store[c].status \in {"PENDING", "ASSIGNED"}
       /\ now - order_store[c].created_at = 0

\* the payments captured for order o
Captures(store, o) == Cardinality({i \in 1..Len(store) : store[i] = o})

\* a step that is a process_order_payment call for order o
PayStep(o) ==
  Returned(process_order_payment(World, o, 0, FALSE), "process_order_payment", o,
           IF o \in DOMAIN order_store /\ order_store[o].is_paid THEN 1 ELSE 0)

\* C10: the first process_order_payment call on a delivered order captures
\* one payment, records its id and sets is_paid; a call on a delivered order
\* that is paid returns normally and changes nothing, so the order has one
\* payment however often the call is made.
C10_PayIdempotent ==
  [][\A o \in WithStatus({"DELIVERED"}) :
       PayStep(o) =>
         /\ lastOp'.err = "ok"
         /\ order_store'[o].is_paid
         /\ Captures(payment_store', o) = 1
         /\ payment_store'[order_store'[o].payment_id] = o
         /\ IF order_store[o].is_paid
            THEN UNCHANGED storeVars
            ELSE /\ Len(payment_store') = Len(payment_store) + 1
                 /\ order_store'[o].payment_id = Len(payment_store')]_vars

\* C10 witness: a second call has returned on a delivered order that the
\* first call had paid.
C10_Witness ==
  /\ lastOp.op = "process_order_payment" /\ lastOp.err = "ok" /\ lastOp.arg = 1
  /\ lastOp.order_id \in WithStatus({"DELIVERED"})
  /\ order_store[lastOp.order_id].is_paid
  /\ Captures(payment_store, lastOp.order_id) = 1

\* C11: in every state reached by controller calls made one at a time, an
\* order that is paid is DELIVERED (process_order_payment captures a payment
\* for a DELIVERED order only).
C11_PaidOnlyDelivered ==
  \A o \in Stored : order_store[o].is_paid => order_store[o].status = "DELIVERED"

\* a step that is a cancel_order call for order o
CancelStep(o) == Returned(cancel_order(World, o, 0), "cancel_order", o, 0)

\* C12: cancel_order of an order that is PICKED_UP, DELIVERED or CANCELLED
\* raises OrderNotCancellable and changes no order, no driver, no payment and
\* not the pending queue (so a second cancel_order of an order frees no driver).
C12_CancelRejected ==
  [][\A o \in WithStatus({"PICKED_UP", "DELIVERED", "CANCELLED"}) :
       CancelStep(o) =>
         /\ lastOp'.err = "OrderNotCancellable"
         /\ UNCHANGED storeVars]_vars

\* C12 witness: cancel_order was refused for an order that an earlier call
\* had cancelled, while a driver is BUSY with another order and a third
\* order waits in the queue.
C12_Witness ==
  /\ lastOp.op = "cancel_order" /\ lastOp.err = "OrderNotCancellable"
  /\ lastOp.order_id \in WithStatus({"CANCELLED"})
  /\ \E a \in WithStatus({"ASSIGNED", "PICKED_UP"}) :
       driver_store[order_store[a].driver_id].status = "BUSY"
  /\ \E b \in WithStatus({"PENDING"}) : b \in Range(pending_orders)

\* a step that is a pickup_order (complete_order) call of driver d for order o
PickupStep(d, o) == Returned(pickup_order(World, d, o, 0), "pickup_order", o, 0)
CompleteStep(d, o) == Returned(complete_order(World, d, o, 0), "complete_order", o, 0)

\* C13: pickup_order of an order that is not ASSIGNED and complete_order of
\* an order that is not PICKED_UP raise InvalidOrderState; with the status
\* right and another driver than the order's they raise DriverNotAssigned;
\* either way no order, no driver and not the pending queue changes.
C13_WrongStateOrDriverRejected ==
  [][\A o \in Stored, d \in DriverIds :
       /\ PickupStep(d, o) /\ order_store[o].status # "ASSIGNED"
            => lastOp'.err = "InvalidOrderState" /\ UNCHANGED storeVars
       /\ PickupStep(d, o) /\ order_store[o].status = "ASSIGNED"
                           /\ order_store[o].driver_id # d
            => lastOp'.err = "DriverNotAssigned" /\ UNCHANGED storeVars
       /\ CompleteStep(d, o) /\ order_store[o].status # "PICKED_UP"
            => lastOp'.err = "InvalidOrderState" /\ UNCHANGED storeVars
       /\ CompleteStep(d, o) /\ order_store[o].status = "PICKED_UP"
                             /\ order_store[o].driver_id # d
            => lastOp'.err = "DriverNotAssigned" /\ UNCHANGED storeVars]_vars

\* C13 witness: pickup_order was refused with DriverNotAssigned for an
\* ASSIGNED order whose driver is BUSY, the other driver having picked up
\* another order, and a third order waits in the queue.
C13_Witness ==
  /\ lastOp.op = "pickup_order" /\ lastOp.err = "DriverNotAssigned"
  /\ lastOp.order_id \in WithStatus({"ASSIGNED"})
  /\ driver_store[order_store[lastOp.order_id].driver_id].status = "BUSY"
  /\ \E a \in WithStatus({"PICKED_UP"}) :
       order_store[a].driver_id # order_store[lastOp.order_id].driver_id
  /\ \E b \in WithStatus({"PENDING"}) : pending_orders = <<b>>

\* a step that is a direct attempt_assignment call for order id o
AttemptStep(o) ==
  LET r == attempt_assignment(World, o) IN
    Returned([w |-> r.w, err |-> "ok"], "attempt_assignment", o, IF r.ret THEN 1 ELSE 0)

\* C14: attempt_assignment for an id that is not stored or whose order is not
\* PENDING returns false and changes no order, no driver and not the queue.
C14_AttemptNotPendingNoOp ==
  [][\A o \in OrderIds :
       AttemptStep(o) /\ (o \notin Stored \/ order_store[o].status # "PENDING")
         => lastOp'.arg = 0 /\ UNCHANGED storeVars]_vars

\* C14 witness: attempt_assignment has returned false for a CANCELLED order
\* that is not queued, while a driver is AVAILABLE and another order waits.
C14_Witness ==
  /\ lastOp.op = "attempt_assignment" /\ lastOp.arg = 0
  /\ lastOp.order_id \in WithStatus({"CANCELLED"})
  /\ lastOp.order_id \notin Range(pending_orders)
  /\ \E d \in Onboarded : driver_store[d].status = "AVAILABLE"
  /\ \E b \in WithStatus({"PENDING"}) : b \in Range(pending_orders)

\* the AVAILABLE drivers, and the one of them onboarded first
AvailableDrivers == {d \in Onboarded : driver_store[d].status = "AVAILABLE"}
FirstAvailable ==
  CHOOSE d \in AvailableDrivers :
    \A e \in AvailableDrivers :
      (CHOOSE i \in 1..Len(driver_keys) : driver_keys[i] = d)
        <= (CHOOSE i \in 1..Len(driver_keys) : driver_keys[i] = e)

\* C15: attempt_assignment for a PENDING order when a driver is AVAILABLE
\* returns true; the first AVAILABLE driver is BUSY and the order is ASSIGNED
\* to it afterwards, in the stores; no other order or driver changes and the
\* queue is as it was.
C15_AttemptAssigns ==
  [][\A o \in WithStatus({"PENDING"}) :
       AttemptStep(o) /\ AvailableDrivers # {}
         => /\ lastOp'.arg = 1
            /\ driver_store' = [driver_store EXCEPT ![FirstAvailable].status = "BUSY"]
            /\ order_store' = [order_store EXCEPT ![o].status = "ASSIGNED",
                                                  ![o].driver_id = FirstAvailable]
            /\ UNCHANGED <<order_keys, driver_keys, pending_orders, payment_store>>]_vars

\* C15 witness: attempt_assignment has returned true for an order that got
\* the second driver, the first being BUSY with another order.
C15_Witness ==
  /\ lastOp.op = "attempt_assignment" /\ lastOp.arg = 1
  /\ lastOp.order_id \in WithStatus({"ASSIGNED"})
  /\ Len(driver_keys) = 2
  /\ order_store[lastOp.order_id].driver_id = driver_keys[2]
  /\ driver_store[driver_keys[2]].status = "BUSY"
  /\ \E a \in WithStatus({"ASSIGNED", "PICKED_UP"}) :
       order_store[a].driver_id = driver_keys[1]

\* a step that is a create_order call with a new id o for customer c
CreateCall(o, c) == Returned(create_order(World, o, c, now, 0), "create_order", o, 0)

\* C16: attempt_assignment for a PENDING order when no driver is AVAILABLE
\* returns false and leaves every order and every driver as it is; a queued
\* id keeps its one entry at its place (a direct call), an id not yet queued
\* is appended at the tail (the attempt create_order makes for a new order).
C16_AttemptQueues ==
  [][/\ \A o \in WithStatus({"PENDING"}) :
          AttemptStep(o) /\ AvailableDrivers = {}
            => /\ lastOp'.arg = 0
               /\ pending_orders' = IF o \in Range(pending_orders) THEN pending_orders
                                    ELSE Append(pending_orders, o)
               /\ UNCHANGED <<order_store, order_keys, driver_store, driver_keys,
                              payment_store>>
     /\ \A o \in OrderIds \ Stored, c \in customer_store :
          CreateCall(o, c) /\ AvailableDrivers = {}
            => /\ lastOp'.err = "ok"
               /\ o \notin Range(pending_orders)
               /\ pending_orders' = Append(pending_orders, o)
               /\ order_store'[o] = Order(now)
               /\ \A x \in Stored : order_store'[x] = order_store[x]
               /\ UNCHANGED <<driver_store, driver_keys, payment_store>>]_vars

\* C16 witness: attempt_assignment has returned false for the PENDING order
\* at the head of a queue of two, every driver being BUSY; the queue still
\* holds the two ids once each, in the order of their creation.
C16_Witness ==
  /\ lastOp.op = "attempt_assignment" /\ lastOp.arg = 0
  /\ lastOp.order_id \in WithStatus({"PENDING"})
  /\ Onboarded # {} /\ AvailableDrivers = {}
  /\ \E b \in WithStatus({"PENDING"}) :
       /\ Rank(lastOp.order_id) < Rank(b)
       /\ pending_orders = <<lastOp.order_id, b>>

\* the places of the pending queue whose order is PENDING
PendingPlaces ==
  {i \in 1..Len(pending_orders) :
     /\ pending_orders[i] \in Stored
     /\ order_store[pending_orders[i]].status = "PENDING"}

\* C17: on_driver_available, called in any state the calls made one at a
\* time reach, returns without error; it removes the entries in front of the
\* first one whose order is PENDING, assigns that order (and no other) to an
\* AVAILABLE driver, removes its entry and stops, the entries behind it and
\* every other order staying as they are; with no PENDING entry it empties
\* the queue and changes nothing else.
C17_DrainFromHead ==
  LET r == on_driver_available(World) IN
    /\ r.err = "ok"
    /\ IF PendingPlaces = {}
       THEN r.w = [World EXCEPT !.pending_orders = <<>>]
       ELSE LET k == CHOOSE i \in PendingPlaces : \A j \in PendingPlaces : i <= j
                o == pending_orders[k]
            IN /\ r.w.order_store[o].status = "ASSIGNED"
               /\ r.w.order_store[o].driver_id \in AvailableDrivers
               /\ r.w.pending_orders = SubSeq(pending_orders, k + 1, Len(pending_orders))
               /\ \A x \in Stored \ {o} : r.w.order_store[x] = order_store[x]

\* a step that is a direct on_driver_available call
DrainStep == Returned(on_driver_available(World), "on_driver_available", None, 0)

\* C17, the calls made while a driver is AVAILABLE or no queued order is
\* PENDING: the call drops the entries in front of the first PENDING one,
\* assigns that order to the first AVAILABLE driver and stops.
C17_DrainWithDriver ==
  [][DrainStep /\ (AvailableDrivers # {} \/ PendingPlaces = {}) =>
       /\ lastOp'.err = "ok"
       /\ UNCHANGED <<order_keys, driver_keys, payment_store>>
       /\ IF PendingPlaces = {}
          THEN pending_orders' = <<>> /\ UNCHANGED <<order_store, driver_store>>
          ELSE LET k == CHOOSE i \in PendingPlaces : \A j \in PendingPlaces : i <= j
                   o == pending_orders[k]
               IN /\ order_store' = [order_store EXCEPT ![o].status = "ASSIGNED",
                                                        ![o].driver_id = FirstAvailable]
                  /\ driver_store' = [driver_store EXCEPT ![FirstAvailable].status = "BUSY"]
                  /\ pending_orders' = SubSeq(pending_orders, k + 1, Len(pending_orders))]_vars

\* C17, a state on_driver_available is called in with a driver
\* AVAILABLE and a queue of a cancelled order and two PENDING ones; the call
\* drops the first entry, assigns the second order and leaves the third.
C17_DrainWithDriverWitness ==
  \E a, b, c \in Stored :
    /\ pending_orders = <<a, b, c>> /\ AvailableDrivers # {}
    /\ order_store[a].status = "CANCELLED"
    /\ order_store[b].status = "PENDING" /\ order_store[c].status = "PENDING"
    /\ LET r == on_driver_available(World) IN
         /\ r.err = "ok"
         /\ r.w.order_store[a].status = "CANCELLED"
         /\ r.w.order_store[b].status = "ASSIGNED"
         /\ r.w.order_store[c].status = "PENDING"
         /\ r.w.pending_orders = <<c>>

\* C18: in every state reached by controller calls made one at a time, a
\* stored order is in the pending queue exactly when it is PENDING (a PENDING
\* order was matched neither at its creation nor later).
C18_QueuedIffPending ==
  \A o \in Stored : o \in Range(pending_orders) <=> order_store[o].status = "PENDING"

\* the queue holds every PENDING order, and only stored orders that are
\* PENDING or CANCELLED
QueueHoldsPending ==
  /\ \A o \in WithStatus({"PENDING"}) : o \in Range(pending_orders)
  /\ \A i \in 1..Len(pending_orders) :
       /\ pending_orders[i] \in Stored
       /\ order_store[pending_orders[i]].status \in {"PENDING", "CANCELLED"}

\* C18 as amended: in every state reached by controller calls made one at a
\* time, every PENDING order is in the queue and every queued id is a stored
\* order that is PENDING or CANCELLED; an id enters the queue only in the
\* create_order call that stores it without matching it.
C18_QueueHoldsPendingAndStale ==
  [][/\ QueueHoldsPending'
     /\ \A o \in OrderIds :
          o \in Range(pending_orders') \ Range(pending_orders)
            => /\ o \notin Stored
               /\ lastOp'.op = "create_order" /\ lastOp'.order_id = o
               /\ order_store'[o].status = "PENDING"]_vars

\* C18 witness: the order at the head of the queue was cancelled and its
\* entry is still there, in front of a PENDING order; every driver is BUSY.
C18_Witness ==
  /\ lastOp.op = "cancel_order" /\ lastOp.err = "ok"
  /\ Onboarded # {} /\ AvailableDrivers = {}
  /\ \E b \in WithStatus({"PENDING"}) : pending_orders = <<lastOp.order_id, b>>
  /\ order_store[lastOp.order_id].status = "CANCELLED"

\* C19: under every interleaving of create_order, cancel_order, pickup_order,
\* complete_order, attempt_assignment and on_driver_available, the pending
\* queue holds no id twice and only ids of stored orders.
C19_QueueNoDuplicates ==
  /\ \A i, j \in 1..Len(pending_orders) : i # j => pending_orders[i] # pending_orders[j]
  /\ Range(pending_orders) \subseteq Stored

\* C19 witness: a direct attempt_assignment has returned for an order that
\* is in a queue of two, while the other thread is inside a call.
C19_Witness ==
  /\ lastOp.op = "attempt_assignment"
  /\ Len(pending_orders) = 2 /\ lastOp.order_id \in Range(pending_orders)
  /\ order_store[lastOp.order_id].status = "PENDING"
  /\ \E t \in 1..ConcThreads : pc[t] # "idle"

\* the places of the pending queue whose order is CANCELLED (stale entries)
StalePlaces ==
  {i \in 1..Len(pending_orders) :
     /\ pending_orders[i] \in Stored
     /\ order_store[pending_orders[i]].status = "CANCELLED"}

\* C20: a CANCELLED order (one cancelled while queued as PENDING included)
\* stays CANCELLED without a driver and, once its entry is out of the queue,
\* is not queued again; and when a call frees a driver while a stale entry
\* stands in front of the first PENDING entry, that PENDING order gets the
\* driver and the entries behind it stay queued in their order.
C20_CancelledNeverAssigned ==
  [][/\ \A o \in WithStatus({"CANCELLED"}) :
          /\ order_store'[o].status = "CANCELLED"
          /\ order_store'[o].driver_id = None
          /\ o \notin Range(pending_orders) => o \notin Range(pending_orders')
     /\ FreeingStep /\ PendingPlaces # {} =>
          LET k == CHOOSE i \in PendingPlaces : \A j \in PendingPlaces : i <= j IN
            (\E i \in StalePlaces : i < k) =>
              /\ order_store'[pending_orders[k]].status = "ASSIGNED"
              /\ order_store'[pending_orders[k]].driver_id \in Onboarded
              /\ pending_orders' = SubSeq(pending_orders, k + 1, Len(pending_orders))]_vars

\* C20 witness: a state in which a driver holds a picked up order and the
\* queue holds a cancelled order in front of a PENDING one; a direct
\* attempt_assignment of the cancelled order changes nothing, and
\* complete_order drops the stale entry and gives the driver to the PENDING
\* order.
C20_Witness ==
  \E x, a, b \in Stored, d \in Onboarded :
    /\ order_store[x].status = "PICKED_UP" /\ order_store[x].driver_id = d
    /\ pending_orders = <<a, b>>
    /\ order_store[a].status = "CANCELLED" /\ order_store[b].status = "PENDING"
    /\ attempt_assignment(World, a) = [w |-> World, ret |-> FALSE]
    /\ LET r == complete_order(World, d, x, 0) IN
         /\ r.err = "ok"
         /\ r.w.order_store[a].status = "CANCELLED"
         /\ r.w.order_store[b].status = "ASSIGNED" /\ r.w.order_store[b].driver_id = d
         /\ r.w.pending_orders = <<>>

\* an order's status, "none" for an id that is not stored
StatusOf(o) == IF o \in Stored THEN order_store[o].status ELSE "none"

\* C20, interleaved calls: an order that is CANCELLED while its entry is in
\* the queue is CANCELLED ever after.
C20_StaleEntryStaysCancelled ==
  \A o \in OrderIds :
    [](StatusOf(o) = "CANCELLED" /\ o \in Range(pending_orders)
         => [](StatusOf(o) = "CANCELLED"))

\* C21: complete_order by its driver d on a PICKED_UP order o returns
\* normally, sets o to DELIVERED keeping every other field (driver_id
\* included), adds 1 to d's order_count, and leaves d BUSY with the first
\* PENDING order of the queue, now ASSIGNED to d, or AVAILABLE when no queued
\* order is PENDING; no other order and no other driver changes.
C21_CompleteDeliversAndDrains ==
  [][\A o \in WithStatus({"PICKED_UP"}) :
       CompleteStep(order_store[o].driver_id, o) =>
         LET d == order_store[o].driver_id IN
           /\ lastOp'.err = "ok"
           /\ order_store'[o] = [order_store[o] EXCEPT !.status = "DELIVERED"]
           /\ driver_store'[d].order_count = driver_store[d].order_count + 1
           /\ \A e \in Onboarded \ {d} : driver_store'[e] = driver_store[e]
           /\ UNCHANGED <<order_keys, driver_keys, payment_store>>
           /\ IF PendingPlaces = {}
              THEN /\ driver_store'[d].status = "AVAILABLE"
                   /\ \A x \in Stored \ {o} : order_store'[x] = order_store[x]
                   /\ pending_orders' = <<>>
              ELSE LET k == CHOOSE i \in PendingPlaces : \A j \in PendingPlaces : i <= j
                       h == pending_orders[k]
                   IN /\ driver_store'[d].status = "BUSY"
                      /\ order_store'[h] = [order_store[h] EXCEPT !.status = "ASSIGNED",
                                                                  !.driver_id = d]
                      /\ \A x \in Stored \ {o, h} : order_store'[x] = order_store[x]
                      /\ pending_orders' =
                           SubSeq(pending_orders, k + 1, Len(pending_orders))]_vars

\* C21 witness: a driver has completed its second order and is BUSY again
\* with the order that waited in the queue.
C21_Witness ==
  /\ lastOp.op = "complete_order" /\ lastOp.err = "ok"
  /\ order_store[lastOp.order_id].status = "DELIVERED"
  /\ LET d == order_store[lastOp.order_id].driver_id IN
       /\ d \in Onboarded
       /\ driver_store[d].order_count = 2 /\ driver_store[d].status = "BUSY"
       /\ \E b \in WithStatus({"ASSIGNED"}) : order_store[b].driver_id = d
  /\ pending_orders = <<>>

\* C22: cancel_order on a PENDING order sets it to CANCELLED and changes no
\* driver, no other order and not the queue; on an ASSIGNED order held by d
\* it sets the order to CANCELLED with driver_id cleared and drains the queue
\* for d: d ends BUSY with the first PENDING order of the queue, now ASSIGNED
\* to d, or AVAILABLE when no queued order is PENDING. d's order_count and
\* every other driver are unchanged.
C22_CancelFreesAndDrains ==
  [][\A o \in WithStatus({"PENDING", "ASSIGNED"}) :
       CancelStep(o) =>
         LET d == order_store[o].driver_id IN
           /\ lastOp'.err = "ok"
           /\ order_store'[o] = [order_store[o] EXCEPT !.status = "CANCELLED",
                                                       !.driver_id = None]
           /\ UNCHANGED <<order_keys, driver_keys, payment_store>>
           /\ IF order_store[o].status = "PENDING"
              THEN /\ d = None
                   /\ UNCHANGED <<driver_store, pending_orders>>
                   /\ \A x \in Stored \ {o} : order_store'[x] = order_store[x]
              ELSE /\ d \in Onboarded
                   /\ \A e \in Onboarded \ {d} : driver_store'[e] = driver_store[e]
                   /\ driver_store'[d].order_count = driver_store[d].order_count
                   /\ IF PendingPlaces = {}
                      THEN /\ driver_store'[d].status = "AVAILABLE"
                           /\ \A x \in Stored \ {o} : order_store'[x] = order_store[x]
                           /\ pending_orders' = <<>>
                      ELSE LET k == CHOOSE i \in PendingPlaces :
                                      \A j \in PendingPlaces : i <= j
                               h == pending_orders[k]
                           IN /\ driver_store'[d].status = "BUSY"
                              /\ order_store'[h] =
                                   [order_store[h] EXCEPT !.status = "ASSIGNED",
                                                          !.driver_id = d]
                              /\ \A x \in Stored \ {o, h} :
                                   order_store'[x] = order_store[x]
                              /\ pending_orders' =
                                   SubSeq(pending_orders, k + 1, Len(pending_orders))]_vars

\* C22 witness: an ASSIGNED order was cancelled, it holds no driver any more,
\* and the driver it held is BUSY with the order that waited in the queue,
\* while a PENDING order cancelled earlier changed no driver.
C22_Witness ==
  /\ lastOp.op = "cancel_order" /\ lastOp.err = "ok"
  /\ order_store[lastOp.order_id].status = "CANCELLED"
  /\ order_store[lastOp.order_id].driver_id = None
  /\ \E d \in Onboarded, b \in WithStatus({"ASSIGNED"}) :
       /\ driver_store[d].status = "BUSY" /\ driver_store[d].order_count = 0
       /\ order_store[b].driver_id = d
       /\ b > lastOp.order_id
  /\ \E c \in WithStatus({"CANCELLED"}) : c # lastOp.order_id
  /\ pending_orders = <<>>

\* The state of the demo scenario: orders 1..Len(statuses) stored in creation
\* order with the given statuses and drivers, drivers D1 and D2 onboarded in
\* that order with the given statuses, and the given pending queue.
ScenarioState(statuses, drivers, dstatus, queue) ==
  /\ order_keys = [i \in 1..Len(statuses) |-> i]
  /\ \A i \in 1..Len(statuses) :
       /\ order_store[i].status = statuses[i]
       /\ order_store[i].driver_id = drivers[i]
  /\ driver_keys = <<1, 2>>
  /\ \A d \in {1, 2} : driver_store[d].status = dstatus[d]
  /\ pending_orders = queue

ScenarioStart == ScenarioState(<<>>, <<>>, <<"AVAILABLE", "AVAILABLE">>, <<>>)
ScenarioO1 == ScenarioState(<<"ASSIGNED">>, <<1>>, <<"BUSY", "AVAILABLE">>, <<>>)
ScenarioO2 ==
  ScenarioState(<<"ASSIGNED", "ASSIGNED">>, <<1, 2>>, <<"BUSY", "BUSY">>, <<>>)
ScenarioO3 ==
  ScenarioState(<<"ASSIGNED", "ASSIGNED", "PENDING">>, <<1, 2, None>>,
                <<"BUSY", "BUSY">>, <<3>>)
ScenarioPickedUp ==
  ScenarioState(<<"PICKED_UP", "ASSIGNED", "PENDING">>, <<1, 2, None>>,
                <<"BUSY", "BUSY">>, <<3>>)
ScenarioCompleted ==
  ScenarioState(<<"DELIVERED", "ASSIGNED", "ASSIGNED">>, <<1, 2, 1>>,
                <<"BUSY", "BUSY">>, <<>>)

\* C23: with drivers D1, D2 onboarded in that order and AVAILABLE and no
\* order stored, create O1 leaves O1 ASSIGNED to D1, then create O2 leaves O2
\* ASSIGNED to D2, then create O3 leaves O3 PENDING and queued; then pickup
\* of O1 by D1 and complete of O1 by D1 leave O1 DELIVERED, O3 ASSIGNED to D1
\* and D1 BUSY, the queue empty. Every call of the scenario returns normally.
C23_Scenario ==
  [][/\ ScenarioStart /\ CreateCall(1, 1) => lastOp'.err = "ok" /\ ScenarioO1'
     /\ ScenarioO1 /\ CreateCall(2, 1) => lastOp'.err = "ok" /\ ScenarioO2'
     /\ ScenarioO2 /\ CreateCall(3, 1) => lastOp'.err = "ok" /\ ScenarioO3'
     /\ ScenarioO3 /\ PickupStep(1, 1) => lastOp'.err = "ok" /\ ScenarioPickedUp'
     /\ ScenarioPickedUp /\ CompleteStep(1, 1) =>
          lastOp'.err = "ok" /\ ScenarioCompleted']_vars

\* C23 witness: the end of the scenario, reached by the completion of O1.
C23_Witness ==
  /\ ScenarioCompleted
  /\ lastOp.op = "complete_order" /\ lastOp.order_id = 1 /\ lastOp.err = "ok"
  /\ driver_store[1].order_count = 1 /\ driver_store[2].order_count = 0

C24_UnknownCustomerRefused ==
  /\ lastOp.op = "create_order" /\ lastOp.err = "CustomerNotFound"
  /\ lastOp.order_id \notin Stored
  /\ Stored # {}

CreateSizedCall(o, c, q, wt) ==
  Returned(create_order_sized(World, o, c, now, q, wt), "create_order", o, 0)

\* C25: create_order with a quantity greater than 10 or a weight greater
\* than 50 raises a validation error (ValueError) and stores no order,
\* assigns nothing and queues nothing.
C25_OversizedRejected ==
  [][\A o \in OrderIds, c \in CustomerIds, q \in Quantities, wt \in Weights :
       (q > 10 \/ wt > 50) /\ CreateSizedCall(o, c, q, wt) =>
         /\ lastOp'.err = "ValueError"
         /\ UNCHANGED storeVars]_vars

\* What the code does instead: every create_order call that passes a
\* quantity or a weight, in range or not, raises TypeError and has no effect.
C25_SizedCreateUnsupported ==
  [][\A o \in OrderIds, c \in CustomerIds, q \in Quantities, wt \in Weights :
       CreateSizedCall(o, c, q, wt) =>
         /\ lastOp'.err = "TypeError"
         /\ UNCHANGED storeVars]_vars

\* the step in which a call's n-th notification raised
NotifyFailed(r, op, o, n) == r.err = "NotificationError" /\ Returned(r, op, o, n)

\* C26: a notification that raises inside create_order, cancel_order or
\* complete_order neither rolls back the transition nor cuts it short: the
\* stores after the call are those the same call leaves when every
\* notification succeeds (the new order saved and assigned or queued; the
\* cancelled order's driver freed and the queue drained; the queue drained
\* after a completion).
C26_NotifyFailureHarmless ==
  [][/\ \A o \in OrderIds, c \in CustomerIds :
          NotifyFailed(create_order(World, o, c, now, 1), "create_order", o, 1) =>
            EffectsOf(create_order(World, o, c, now, 0))
     /\ \A o \in OrderIds, n \in {1, 2} :
          NotifyFailed(cancel_order(World, o, n), "cancel_order", o, n) =>
            EffectsOf(cancel_order(World, o, 0))
     /\ \A o \in OrderIds, d \in DriverIds :
          NotifyFailed(complete_order(World, d, o, 1), "complete_order", o, 1) =>
            EffectsOf(complete_order(World, d, o, 0))]_vars

\* What the code does keep: the write made before the failing notification.
\* The new order is stored (PENDING), the cancelled order is CANCELLED, the
\* completed order is DELIVERED and the picked-up order is PICKED_UP.
C26_WritePersists ==
  [][\A o \in OrderIds, c \in CustomerIds, d \in DriverIds, n \in {1, 2} :
       /\ NotifyFailed(create_order(World, o, c, now, 1), "create_order", o, 1) =>
            o \notin Stored /\ o \in Stored' /\ order_store'[o].status = "PENDING"
       /\ NotifyFailed(cancel_order(World, o, n), "cancel_order", o, n) =>
            order_store'[o].status = "CANCELLED"
       /\ NotifyFailed(complete_order(World, d, o, 1), "complete_order", o, 1) =>
            order_store'[o].status = "DELIVERED"
       /\ NotifyFailed(pickup_order(World, d, o, n), "pickup_order", o, n) =>
            order_store'[o].status = "PICKED_UP"]_vars

\* The states the failures leave behind: a stored PENDING order that is in
\* no queue, and a BUSY driver that holds no order.
C26_NoOrphans ==
  /\ \A o \in WithStatus({"PENDING"}) : \E i \in 1..Len(pending_orders) : pending_orders[i] = o
  /\ \A d \in Onboarded :
       driver_store[d].status = "BUSY" =>
         \E o \in WithStatus({"ASSIGNED", "PICKED_UP"}) : order_store[o].driver_id = d

PayFailedStep(o) ==
  LET r == process_order_payment(World, o, 0, TRUE) IN
    r.err = "PaymentError" /\ Returned(r, "process_order_payment", o, 0)

\* C27: when process_payment raises, process_order_payment raises to its
\* caller and changes nothing: the order stays unpaid (is_paid false,
\* payment_id unset) and no payment is recorded; and a pay call on an order
\* whose last pay call failed performs a capture and marks the order paid.
C27_PaymentFailurePropagates ==
  [][\A o \in Stored :
       /\ PayFailedStep(o) =>
            /\ ~order_store[o].is_paid
            /\ lastOp'.err = "PaymentError"
            /\ ~order_store'[o].is_paid /\ order_store'[o].payment_id = None
            /\ UNCHANGED storeVars
       /\ (lastOp.op = "process_order_payment" /\ lastOp.err = "PaymentError"
             /\ lastOp.order_id = o /\ PayStep(o)) =>
            /\ lastOp'.err = "ok"
            /\ Captures(payment_store', o) = Captures(payment_store, o) + 1
            /\ order_store'[o].is_paid
            /\ order_store'[o].payment_id = Len(payment_store')]_vars

\* C27 witness: the pay call of a DELIVERED order failed after another order
\* was paid; the order is unpaid and holds no payment id.
C27_Witness ==
  /\ lastOp.op = "process_order_payment" /\ lastOp.err = "PaymentError"
  /\ order_store[lastOp.order_id].status = "DELIVERED"
  /\ ~order_store[lastOp.order_id].is_paid
  /\ order_store[lastOp.order_id].payment_id = None
  /\ Len(payment_store) = 1

\* a call of cleanup_expired_orders begins
PassBegins == sched.run = "call" /\ sched'.run = "pass"

\* C28: once stop() has set the stop event, no call of
\* cleanup_expired_orders begins; and a pass in flight is left only by its
\* own end (it goes on to the sleep of its iteration), never by stop().
C28_NoPassAfterStop ==
  [][/\ PassBegins => ~sched.stop_event
     /\ sched.run = "pass" => sched'.run \in {"pass", "sleep"}]_vars

\* What the code guarantees: a pass begins with the event set only from the
\* window between the loop test and the call; from every other place the
\* thread starts no pass any more once the event is set, and a pass in
\* flight is never cut short.
C28_OnlyTheWindowPassStarts ==
  [][/\ sched.stop_event /\ sched.run # "call" => sched'.run # "call"
     /\ sched.stop_event => sched'.stop_event
     /\ sched.run = "pass" => sched'.run \in {"pass", "sleep"}
     /\ sched.run = "done" => sched'.run = "done"]_vars

\* Under fair scheduling a pass in flight ends.
C28_PassInFlightEnds == (sched.run = "pass") ~> (sched.run = "sleep")

\* C29: when stop() has returned, the sweeper thread has left its loop: it
\* runs no pass and sleeps towards no further loop test, whatever
\* check_interval_seconds is.
C29_StopReturnsAfterLoopLeft == sched.stop = "returned" => sched.run = "done"

\* Under fair scheduling stop() always returns, and the thread leaves its
\* loop in the end.
C29_StopAlwaysReturns == (sched.stop = "join") ~> (sched.stop = "returned")
C29_LoopLeftInTheEnd == (sched.stop = "join") ~> (sched.run = "done")

\* stop() has returned on its timeout while the thread sleeps on.
C29_ReturnedWhileSleeping ==
  sched.stop = "returned" /\ sched.run = "sleep" /\ sched.sleep_left > 0

\* thread t is inside a pass of cleanup_expired_orders
Sweeping(t) == loc[t].op = "cleanup_expired_orders"

\* the cancel_order called by the pass of thread t finds the order not
\* cancellable any more and raises OrderNotCancellable
SweepCancelRefused(t) ==
  /\ Sweeping(t) /\ pc[t] = "x_check"
  /\ ~can_be_cancelled(order_store[loc[t].order_id])
  /\ x_check(t)

\* C30: when the cancel_order of a sweep pass raises OrderNotCancellable the
\* pass raises nothing and changes nothing (the order stays as the
\* concurrent call set it) and goes on with the next order of its scan;
\* after that it still calls cancel_order for every order of the scan that
\* it finds PENDING or ASSIGNED and expired; and every pass returns
\* normally.
C30_SweepSwallowsRefusedCancel ==
  [][\A t \in 1..ConcThreads :
       /\ SweepCancelRefused(t) =>
            /\ UNCHANGED <<storeVars, lastOp>>
            /\ pc'[t] = "w_status" /\ Sweeping(t)'
            /\ loc'[t].idx = loc[t].idx + 1
            /\ loc'[t].all = loc[t].all /\ loc'[t].at = loc[t].at
            /\ loc'[t].timeout = loc[t].timeout
       /\ (Sweeping(t) /\ loc[t].swallowed > 0 /\ loc[t].idx <= loc[t].all /\ w_status(t)) =>
            LET id == order_keys[loc[t].idx] IN
              IF order_store[id].status \in {"PENDING", "ASSIGNED"}
                 /\ loc[t].at - order_store[id].created_at > loc[t].timeout
              THEN pc'[t] = "x_check" /\ loc'[t].order_id = id
              ELSE pc'[t] = "w_status" /\ loc'[t].idx = loc[t].idx + 1
       /\ (Sweeping(t) /\ ~Sweeping(t)') =>
            /\ lastOp'.op = "cleanup_expired_orders" /\ lastOp'.err = "ok"
            /\ loc[t].idx = loc[t].all + 1]_vars

\* C30 witness: two orders were created, the first was picked up and one
\* pass ran, in four calls: the pass caught the OrderNotCancellable of the
\* first order, which is PICKED_UP with its driver, cancelled the second
\* order and returned normally.
C30_Witness ==
  /\ lastOp.op = "cleanup_expired_orders" /\ lastOp.err = "ok" /\ lastOp.arg = 1
  /\ calls = 4 /\ order_keys = <<1, 2>>
  /\ \A t \in Threads : pc[t] = "idle"
  /\ order_store[1].status = "PICKED_UP" /\ order_store[1].driver_id # None
  /\ order_store[2].status = "CANCELLED"

\* thread t waits for a lock that thread u holds
WaitsFor(t, u) ==
  /\ t # u /\ NextEvent(t, "acquire")
  /\ locks.owner[Head(locks.todo[t]).l] = u

NoWaitCycle ==
  /\ \A t, u \in Threads : ~(WaitsFor(t, u) /\ WaitsFor(u, t))
  /\ \A t, u, v \in Threads : ~(WaitsFor(t, u) /\ WaitsFor(u, v) /\ WaitsFor(v, t))

Acquires(t, l) == Acquire(t) /\ Head(locks.todo[t]).l = l

\* C31: a thread that acquires the engine lock holds no store lock, a thread
\* that acquires the driver-store lock does not hold the order-store lock,
\* OrderService executes no statement of its own while its thread holds the
\* engine lock, and in no state do threads wait for each other's locks in a
\* cycle.
C31_LockOrder ==
  /\ []NoWaitCycle
  /\ [][\A t \in Threads :
          /\ Acquires(t, "engine") =>
               locks.owner["drivers"] # t /\ locks.owner["orders"] # t
          /\ Acquires(t, "drivers") => locks.owner["orders"] # t
          /\ OwnStatement(t) => locks.owner["engine"] # t]_vars

\* C31 witness: a thread inside the engine holds the engine lock and the
\* driver-store lock, the engine lock taken twice (a drain that attempts),
\* while a second thread, back from the order store, waits for the engine lock.
C31_Witness ==
  \E t, u \in Threads :
    /\ locks.owner["engine"] = t /\ locks.owner["drivers"] = t
    /\ locks.depth["engine"] = 2
    /\ WaitsFor(u, t) /\ Head(locks.todo[u]).l = "engine"

\* the orders that hold driver d
ActiveOrdersOf(d) ==
  {o \in Stored : order_store[o].driver_id = d
                  /\ order_store[o].status \in {"ASSIGNED", "PICKED_UP"}}

\* C32: under every interleaving of create_order, cancel_order, pickup_order
\* and complete_order, two cancel_order or two complete_order calls on the
\* same order included, two ASSIGNED or PICKED_UP orders never reference the
\* same driver, and once every call has returned a driver is BUSY exactly when
\* one ASSIGNED or PICKED_UP order references it.
C32_DriverHeldByOneOrder ==
  /\ \A d \in Onboarded : Cardinality(ActiveOrdersOf(d)) <= 1
  /\ Quiescent =>
       \A d \in Onboarded :
         driver_store[d].status = "BUSY" <=> Cardinality(ActiveOrdersOf(d)) = 1

\* the DELIVERED orders of driver d
DeliveredBy(d) ==
  {o \in Stored : order_store[o].driver_id = d /\ order_store[o].status = "DELIVERED"}

\* C33: under every interleaving of controller calls, once every call has
\* returned the order_count of each driver is the number of DELIVERED orders
\* whose driver_id is that driver; a delivery is not counted twice when
\* complete_order runs twice at once for one order.
C33_OrderCountIsDeliveries ==
  Quiescent =>
    \A d \in Onboarded : driver_store[d].order_count = Cardinality(DeliveredBy(d))

\* an order object put in the store by thread t
SavesOrder(t) == c_save(t)

\* C34: of the create_order calls made with one order id at the same time one
\* stores its Order and the others raise DuplicateOrder: no call saves an
\* Order under an id the store already holds, and once every call has
\* returned no driver is BUSY without an ASSIGNED order of the store naming it.
C34_StoredOrderNeverReplaced ==
  /\ [][\A t \in Threads :
          SavesOrder(t) => loc[t].order_id \notin DOMAIN order_store]_vars
  /\ [](Quiescent =>
          \A d \in Onboarded :
            driver_store[d].status = "BUSY" <=> Cardinality(ActiveOrdersOf(d)) = 1)

\* C35: under every interleaving of process_order_payment calls on one order,
\* process_payment is invoked at most once for the order, and once the calls
\* have returned the payment_id of a paid order is the id of that payment.
C35_OnePaymentPerOrder ==
  /\ \A o \in OrderIds : Captures(payment_store, o) <= 1
  /\ Quiescent =>
       \A o \in Stored :
         order_store[o].is_paid =>
           /\ order_store[o].payment_id \in 1..Len(payment_store)
           /\ payment_store[order_store[o].payment_id] = o

\* C36: work conservation. After any sequence of onboard_driver, create_order,
\* pickup_order, complete_order, cancel_order and sweep calls made one at a
\* time, no order is PENDING while a driver is AVAILABLE.
C36_WorkConservation ==
  WithStatus({"PENDING"}) # {}
    => \A d \in Onboarded : driver_store[d].status # "AVAILABLE"

\* C37: under every interleaving of controller calls, once every call has
\* returned each PENDING order is in the pending queue.
C37_PendingOrdersQueued ==
  Quiescent => WithStatus({"PENDING"}) \subseteq Range(pending_orders)

\* C37 witness: every call has returned, a create_order raced by a
\* cancel_order left a driver BUSY without an order, and the order created
\* next is PENDING and queued.
C37_Witness ==
  /\ Quiescent
  /\ \E d \in Onboarded : driver_store[d].status = "BUSY" /\ ActiveOrdersOf(d) = {}
  /\ \E o \in WithStatus({"PENDING"}) : o \in Range(pending_orders)

\* the places of the AVAILABLE drivers in the list
AvailablePlaces ==
  {i \in 1..Len(driver_keys) : driver_store[driver_keys[i]].status = "AVAILABLE"}

\* C38: FirstAvailableMatchingStrategy.find_driver returns the first AVAILABLE
\* driver of the list; RatingBasedMatchingStrategy.find_driver returns an
\* AVAILABLE driver of maximal rating among the AVAILABLE ones, the first of
\* them in list order; both return None exactly when no driver is AVAILABLE,
\* never a BUSY driver, and neither changes a driver.
C38_StrategiesPickAvailable ==
  /\ [](lastOp.op = "FirstAvailable.find_driver" =>
          IF AvailablePlaces = {} THEN lastOp.arg = None
          ELSE \E i \in AvailablePlaces :
                 /\ lastOp.arg = driver_keys[i]
                 /\ \A j \in AvailablePlaces : i <= j)
  /\ [](lastOp.op = "RatingBased.find_driver" =>
          IF AvailablePlaces = {} THEN lastOp.arg = None
          ELSE \E i \in AvailablePlaces :
                 /\ lastOp.arg = driver_keys[i]
                 /\ \A j \in AvailablePlaces :
                      \/ driver_store[driver_keys[j]].rating
                           < driver_store[driver_keys[i]].rating
                      \/ /\ driver_store[driver_keys[j]].rating
                              = driver_store[driver_keys[i]].rating
                         /\ i <= j)
  /\ [][driver_store' = driver_store /\ driver_keys' = driver_keys]_vars

\* C38 witness: the rating strategy was given a BUSY driver of the highest
\* rating before two AVAILABLE drivers of equal rating and returned the first
\* of the two.
C38_Witness ==
  /\ lastOp.op = "RatingBased.find_driver" /\ lastOp.arg = 2
  /\ Len(driver_keys) = 3
  /\ driver_store[1].status = "BUSY" /\ driver_store[1].rating = 5
  /\ driver_store[2].status = "AVAILABLE" /\ driver_store[2].rating = 3
  /\ driver_store[3].status = "AVAILABLE" /\ driver_store[3].rating = 3

====
